---- MODULE Spec2Model ----
(***************************************************************************)
(* A model of the Maya rigging scripts under Rigs/Build.                   *)
(*                                                                         *)
(* The scripts are straight-line calls into the host's scene graph         *)
(* (maya.cmds).  The scene is modelled as a record of the DAG (node names, *)
(* types, parents, child order), user attributes, stored plug values,      *)
(* transform values, connections, constraints and IK handles; every cmds   *)
(* call the scripts make is an operator from a scene to a scene and a      *)
(* result, and every script function is the composition of its calls in    *)
(* source order.                                                           *)
(*                                                                         *)
(* Strings are sequences of one-character strings, so that replace,        *)
(* startswith, endswith, string ordering and f-string concatenation are    *)
(* computed as Python computes them.                                       *)
(***************************************************************************)
EXTENDS Integers, Sequences, FiniteSets, TLC

VARIABLES
    scene,      \* the host's scene graph
    op,         \* the last script function called and what it was given
    result,        \* the value that call returned
    exc,        \* the exception that call ended with, or "none"
    calls       \* the number of calls made

vars == <<scene, op, result, exc, calls>>

(***************************************************************************)
(* Bounds of the model.                                                    *)
(***************************************************************************)
\* Number of times build_groups is run on a scene.
MaxBuilds == 2
\* Number of times add_fkik_switch_attribute is run on a scene.
MaxSwitch == 2
\* Number of other script calls explored from an initial scene.
MaxCalls == 1
\* Longest joint list handed to match_joints.
MaxLen == 3
\* Highest number the host appends to make a node name unique.
MaxSuffix == 3

(***************************************************************************)
(* Python strings.                                                         *)
(***************************************************************************)
\* The characters that occur in node and attribute names, in code-point order.
Alphabet ==
    << ".", "0", "1", "2", "3", "4", "5", "6", "7", "8", "9",
       "A", "B", "C", "D", "E", "F", "G", "H", "I", "J", "K", "L", "M",
       "N", "O", "P", "Q", "R", "S", "T", "U", "V", "W", "X", "Y", "Z",
       "_",
       "a", "b", "c", "d", "e", "f", "g", "h", "i", "j", "k", "l", "m",
       "n", "o", "p", "q", "r", "s", "t", "u", "v", "w", "x", "y", "z",
       "|" >>

Ord(c) == CHOOSE i \in 1..Len(Alphabet) : Alphabet[i] = c

Min2(a, b) == IF a < b THEN a ELSE b

\* a < b on Python strings: compare code points left to right, a proper
\* prefix sorts first.
StrLess(a, b) ==
    \E k \in 0..Min2(Len(a), Len(b)) :
        /\ \A i \in 1..k : a[i] = b[i]
        /\ \/ k = Len(a) /\ k < Len(b)
           \/ k < Len(a) /\ k < Len(b) /\ Ord(a[k + 1]) < Ord(b[k + 1])

\* s.startswith(p)
startswith(s, p) == Len(p) <= Len(s) /\ SubSeq(s, 1, Len(p)) = p

\* s.endswith(p)
endswith(s, p) ==
    Len(p) <= Len(s) /\ SubSeq(s, Len(s) - Len(p) + 1, Len(s)) = p

\* s.replace(old, new): every non-overlapping occurrence, left to right.
RECURSIVE replace(_, _, _)
replace(s, old, new) ==
    IF Len(s) < Len(old) THEN s
    ELSE IF SubSeq(s, 1, Len(old)) = old
         THEN new \o replace(SubSeq(s, Len(old) + 1, Len(s)), old, new)
         ELSE <<Head(s)>> \o replace(Tail(s), old, new)

\* list.sort() of a list of strings: ascending, stable.
RECURSIVE InsertSorted(_, _)
InsertSorted(x, l) ==
    IF l = <<>> THEN <<x>>
    ELSE IF StrLess(x, Head(l)) THEN <<x>> \o l
         ELSE <<Head(l)>> \o InsertSorted(x, Tail(l))

\* A sort step left out: the list as it was collected.
unsorted(l) == l

RECURSIVE sort(_)
sort(l) ==
    IF l = <<>> THEN <<>>
    ELSE InsertSorted(l[Len(l)], sort(SubSeq(l, 1, Len(l) - 1)))

\* The elements of a list, as a set.
Range(l) == {l[i] : i \in 1..Len(l)}

\* F(v), with v worked out once however often F uses it: the way a Python
\* statement binds the result of a call to a local variable.
Bind(v, F(_)) == CHOOSE r \in {F(x) : x \in {v}} : TRUE

\* The decimal digit d as a character.
Digit(d) == Alphabet[d + 2]

(***************************************************************************)
(* Python values: None is kept apart from every string and list.           *)
(***************************************************************************)
PyNone == [none |-> TRUE, v |-> <<>>]
Py(x) == [none |-> FALSE, v |-> x]

\* The absent parent of a node in the world (listRelatives returns None).
World == <<>>

(***************************************************************************)
(* Names the scripts spell out.                                            *)
(***************************************************************************)
ROOT == <<"R", "O", "O", "T">>
CONTROLS == <<"C", "O", "N", "T", "R", "O", "L", "S">>
DO_NOT_TOUCH == <<"D", "O", "_", "N", "O", "T", "_", "T", "O", "U", "C", "H">>
EXPORT_SKELETON ==
    <<"E", "X", "P", "O", "R", "T", "_", "S", "K", "E", "L", "E", "T", "O", "N">>
GEO == <<"G", "E", "O">>
RIG_DEFORMERS ==
    <<"R", "I", "G", "_", "D", "E", "F", "O", "R", "M", "E", "R", "S">>
RIG_SYSTEMS == <<"R", "I", "G", "_", "S", "Y", "S", "T", "E", "M", "S">>

\* hierarchy of build_groups, in the dict's insertion order.
hierarchy ==
    << [parent |-> ROOT, children |-> <<CONTROLS, DO_NOT_TOUCH>>],
       [parent |-> DO_NOT_TOUCH,
        children |-> <<EXPORT_SKELETON, GEO, RIG_DEFORMERS, RIG_SYSTEMS>>] >>

(***************************************************************************)
(* The scene and the host calls the scripts make.                          *)
(***************************************************************************)
EmptyScene ==
    [ order |-> <<>>,          \* node names, in DAG (creation / reparent) order
      node |-> <<>>,           \* name -> [type, parent]
      attrs |-> <<>>,          \* name -> list of user attributes
      val |-> <<>>,            \* plug -> stored value
      xf |-> <<>>,             \* plug -> stored triple (translate, scale, ...)
      conns |-> {},            \* connections [src |-> plug, dst |-> plug]
      cons |-> <<>>,           \* constraint -> [driven, targets, aliases]
      ik |-> <<>> ]            \* IK handle -> [startJoint, endJoint, ...]

Nodes(s) == Range(s.order)

Exists(s, n) == n \in Nodes(s)

ParentOf(s, n) == s.node[n].parent

\* The components of a DAG path 'a|b|c'.
RECURSIVE SplitPath(_)
SplitPath(p) ==
    IF \A i \in 1..Len(p) : p[i] # "|" THEN <<p>>
    ELSE LET k == CHOOSE i \in 1..Len(p) :
                      p[i] = "|" /\ \A j \in 1..(i - 1) : p[j] # "|"
         IN  <<SubSeq(p, 1, k - 1)>> \o SplitPath(SubSeq(p, k + 1, Len(p)))

\* Node n is named by the (partial) path whose components are comps.
RECURSIVE MatchesPath(_, _, _)
MatchesPath(s, n, comps) ==
    /\ Exists(s, n)
    /\ n = comps[Len(comps)]
    /\ \/ Len(comps) = 1
       \/ /\ ParentOf(s, n) # World
          /\ MatchesPath(s, ParentOf(s, n), SubSeq(comps, 1, Len(comps) - 1))

\* cmds.objExists(name): some node is named by the name or path.
objExists(s, name) == \E n \in Nodes(s) : MatchesPath(s, n, SplitPath(name))

\* The name the host gives a new node asked to be called name: the name
\* itself when it is free, else the name with the first free number appended.
UniqueName(s, name) ==
    IF ~Exists(s, name) THEN name
    ELSE LET free == {d \in 1..MaxSuffix : ~Exists(s, Append(name, Digit(d)))}
             d == CHOOSE x \in free : \A y \in free : x <= y
         IN  Append(name, Digit(d))

\* The function f with key k set to v.
Put(f, k, v) == [x \in DOMAIN f \cup {k} |-> IF x = k THEN v ELSE f[x]]

\* The name the host gives a copy or a helper node: base with the first free
\* number appended.
NumberedName(s, base) ==
    LET free == {d \in 1..MaxSuffix : ~Exists(s, Append(base, Digit(d)))}
        d == CHOOSE x \in free : \A y \in free : x <= y
    IN  Append(base, Digit(d))

\* A new node of the given type under parent (World for none), last in order.
AddNode(s, n, type, parent) ==
    [s EXCEPT !.order = Append(@, n),
              !.node = Put(@, n, [type |-> type, parent |-> parent]),
              !.attrs = Put(@, n, <<>>)]

\* cmds.group(empty=True, name=name[, parent=parent]): a new transform; the
\* call returns its name.
group(s, name, parent) ==
    Bind(UniqueName(s, name), LAMBDA n :
        [s |-> AddNode(s, n, "transform", parent), r |-> n])

\* The plug attr of node.
Plug(node, attr) == [node |-> node, attr |-> attr]

\* The list l without its elements equal to x.
Without(l, x) == SelectSeq(l, LAMBDA y : y # x)

\* Triples of numbers: sum and difference.
VAdd(a, b) == <<a[1] + b[1], a[2] + b[2], a[3] + b[3]>>
VSub(a, b) == <<a[1] - b[1], a[2] - b[2], a[3] - b[3]>>

\* Transform attributes the scripts spell out.
translate == <<"t", "r", "a", "n", "s", "l", "a", "t", "e">>
rotate == <<"r", "o", "t", "a", "t", "e">>
scale == <<"s", "c", "a", "l", "e">>

\* The translation stored on n, relative to its parent.
Translation(s, n) ==
    IF Plug(n, translate) \in DOMAIN s.xf THEN s.xf[Plug(n, translate)]
    ELSE <<0, 0, 0>>

\* cmds.xform(n, query=True, worldSpace=True, translation=True) in a scene
\* without rotation or scaling: the translations from n up to the world,
\* added; the world itself is at the origin.
RECURSIVE xform_query(_, _)
xform_query(s, n) ==
    IF n = World THEN <<0, 0, 0>>
    ELSE VAdd(Translation(s, n), xform_query(s, s.node[n].parent))

\* cmds.ls(selection=True, type='joint'): the selected joints, in selection
\* order.
ls_joints(s, selection) ==
    SelectSeq(selection, LAMBDA n : s.node[n].type = "joint")

\* cmds.listRelatives(n, parent=True, type='joint'): [parent] or None.
listRelatives_parent(s, n) ==
    IF ParentOf(s, n) # World /\ s.node[ParentOf(s, n)].type = "joint"
    THEN Py(<<ParentOf(s, n)>>)
    ELSE PyNone

\* cmds.listRelatives(n, children=True, type='joint'): the child joints in
\* DAG order, or None when there are none.
listRelatives_children(s, n) ==
    LET c == SelectSeq(s.order,
                 LAMBDA x : s.node[x].parent = n /\ s.node[x].type = "joint")
    IN  IF c = <<>> THEN PyNone ELSE Py(c)

\* The children of n of any type.
ChildrenOf(s, n) == {x \in Nodes(s) : s.node[x].parent = n}

\* cmds.duplicate(n, parentOnly=True): a copy of n without its children,
\* beside n, under the host's numbered name; the call returns [copy].
duplicate(s, n) ==
    Bind(NumberedName(s, n), LAMBDA c :
        [s |-> [AddNode(s, c, s.node[n].type, s.node[n].parent) EXCEPT
                   !.attrs[c] = s.attrs[n],
                   !.xf = Put(@, Plug(c, translate), Translation(s, n))],
         r |-> <<c>>])


\* The scene with node old under the name n, every reference following.
Renamed(s, old, n) ==
    LET ren(x) == IF x = old THEN n ELSE x
        unren(x) == IF x = n THEN old ELSE x
        renPlug(p) == Plug(ren(p.node), p.attr)
    IN  [order |-> [i \in 1..Len(s.order) |-> ren(s.order[i])],
         node |-> [x \in {ren(y) : y \in DOMAIN s.node} |->
                     [type |-> s.node[unren(x)].type,
                      parent |-> ren(s.node[unren(x)].parent)]],
         attrs |-> [x \in {ren(y) : y \in DOMAIN s.attrs} |->
                     s.attrs[unren(x)]],
         val |-> [p \in {renPlug(q) : q \in DOMAIN s.val} |->
                     s.val[Plug(unren(p.node), p.attr)]],
         xf |-> [p \in {renPlug(q) : q \in DOMAIN s.xf} |->
                     s.xf[Plug(unren(p.node), p.attr)]],
         conns |-> {[src |-> renPlug(c.src), dst |-> renPlug(c.dst)] :
                     c \in s.conns},
         cons |-> [x \in {ren(y) : y \in DOMAIN s.cons} |->
                     [driven |-> ren(s.cons[unren(x)].driven),
                      targets |-> [i \in 1..Len(s.cons[unren(x)].targets) |->
                                     ren(s.cons[unren(x)].targets[i])],
                      aliases |-> s.cons[unren(x)].aliases]],
         ik |-> [x \in {ren(y) : y \in DOMAIN s.ik} |->
                     [s.ik[unren(x)] EXCEPT
                         !.startJoint = ren(@), !.endJoint = ren(@),
                         !.effector = ren(@)]]]

\* cmds.rename(old, new): the node takes the name new, made unique; the call
\* returns the name given.
rename(s, old, new) ==
    Bind(IF new = old THEN old ELSE UniqueName(s, new), LAMBDA n :
        [s |-> Renamed(s, old, n), r |-> n])

\* cmds.parent(child, newParent): child becomes the last child of newParent
\* and stays where it is in the world.
cmds_parent(s, child, newParent) ==
    Bind(VSub(xform_query(s, child), xform_query(s, newParent)), LAMBDA t :
        [s EXCEPT !.order = Append(Without(@, child), child),
                  !.node[child].parent = newParent,
                  !.xf = Put(@, Plug(child, translate), t)])

\* n is below a in the DAG.
RECURSIVE IsDescendant(_, _, _)
IsDescendant(s, n, a) ==
    /\ ParentOf(s, n) # World
    /\ \/ ParentOf(s, n) = a
       \/ IsDescendant(s, ParentOf(s, n), a)

\* cmds.ikHandle(name=..., startJoint=..., endEffector=..., solver=...,
\* sticky=...): a handle in the world and an effector beside the end joint;
\* the call returns [handle, effector].
ikHandle(s, name, startJoint, endEffector, solver, sticky) ==
    Bind(UniqueName(s, name), LAMBDA h :
    Bind(AddNode(s, h, "ikHandle", World), LAMBDA s1 :
    Bind(NumberedName(s1, <<"e", "f", "f", "e", "c", "t", "o", "r">>),
         LAMBDA e :
        [s |-> [AddNode(s1, e, "ikEffector", ParentOf(s, endEffector)) EXCEPT
                   !.ik = Put(@, h,
                       [startJoint |-> startJoint, endJoint |-> endEffector,
                        effector |-> e, solver |-> solver,
                        sticky |-> sticky])],
         r |-> <<h, e>>])))

\* Attribute names the scripts spell out.
FKIK_Switch == <<"F", "K", "I", "K", "_", "S", "w", "i", "t", "c", "h">>
inputX == <<"i", "n", "p", "u", "t", "X">>
outputX == <<"o", "u", "t", "p", "u", "t", "X">>

\* The plug an f-string 'node.attr' names.
ParsePlug(str) ==
    LET k == CHOOSE i \in 1..Len(str) :
                 str[i] = "." /\ \A j \in 1..(i - 1) : str[j] # "."
    IN  Plug(SubSeq(str, 1, k - 1), SubSeq(str, k + 1, Len(str)))

\* f'{node}.{attr}'
PlugName(n, attr) == n \o <<".">> \o attr

\* cmds.attributeQuery(attr, node=n, exists=True), for a user attribute.
attributeQuery(s, attr, n) ==
    \E i \in 1..Len(s.attrs[n]) : s.attrs[n][i].longName = attr

\* cmds.addAttr(n, longName=..., attributeType=..., min=..., max=...,
\* defaultValue=..., keyable=...): one more attribute on n, at its default.
addAttr(s, n, longName, attributeType, min, max, defaultValue, keyable) ==
    [s EXCEPT !.attrs[n] = Append(@,
                  [longName |-> longName, attributeType |-> attributeType,
                   min |-> min, max |-> max, defaultValue |-> defaultValue,
                   keyable |-> keyable]),
              !.val = Put(@, Plug(n, longName), defaultValue)]

\* cmds.createNode(type, name=name): a new dependency node; returns its name.
createNode(s, type, name) ==
    Bind(UniqueName(s, name), LAMBDA n :
        [s |-> AddNode(s, n, type, World), r |-> n])

visibility == <<"v", "i", "s", "i", "b", "i", "l", "i", "t", "y">>

\* The plug is one the host knows: a user attribute, an input or output of a
\* reverse node, the visibility of a DAG node, or a target weight of a
\* constraint.
PlugExists(s, p) ==
    /\ Exists(s, p.node)
    /\ \/ attributeQuery(s, p.attr, p.node)
       \/ s.node[p.node].type = "reverse" /\ p.attr \in {inputX, outputX}
       \/ s.node[p.node].type # "reverse" /\ p.attr = visibility
       \/ /\ p.node \in DOMAIN s.cons
          /\ p.attr \in Range(s.cons[p.node].aliases)

\* cmds.connectAttr(src, dst): the connection is made, unless a plug is
\* missing or dst already has an incoming connection, when the host raises.
connectAttr(s, src, dst) ==
    Bind(ParsePlug(src), LAMBDA sp :
    Bind(ParsePlug(dst), LAMBDA dp :
        IF /\ PlugExists(s, sp)
           /\ PlugExists(s, dp)
           /\ ~\E c \in s.conns : c.dst = dp
        THEN [s |-> [s EXCEPT !.conns = @ \cup {[src |-> sp, dst |-> dp]}],
              ok |-> TRUE]
        ELSE [s |-> s, ok |-> FALSE]))

S_parentConstraint ==
    <<"_", "p", "a", "r", "e", "n", "t", "C", "o", "n", "s", "t", "r", "a",
      "i", "n", "t">>

\* The weight alias the host gives target number i (from 0) of a constraint.
WeightAlias(target, i) == target \o <<"W", Digit(i)>>

\* The parent constraints that drive a node.
ConstraintsOn(s, driven) ==
    {c \in DOMAIN s.cons : s.cons[c].driven = driven}

\* The targets of list l that are not yet in list have, in order.
NewTargets(l, have) == SelectSeq(l, LAMBDA x : x \notin Range(have))

\* targets extended by the list more, with the alias of each added target.
RECURSIVE AddTargets(_, _)
AddTargets(con, more) ==
    IF more = <<>> THEN con
    ELSE AddTargets(
             [con EXCEPT !.targets = Append(@, Head(more)),
                         !.aliases = Append(@, WeightAlias(Head(more),
                                                          Len(con.targets)))],
             Tail(more))

\* The scene with a parent constraint c created under driven when driven has
\* none.
WithConstraint(s, c, driven) ==
    IF ConstraintsOn(s, driven) = {}
    THEN [AddNode(s, c, "parentConstraint", driven) EXCEPT
             !.cons = Put(@, c, [driven |-> driven, targets |-> <<>>,
                                 aliases |-> <<>>])]
    ELSE s

\* cmds.parentConstraint(target1, target2, driven): the constraint on driven
\* gets the targets, each with weight 1; a first constraint is created under
\* driven; the call returns [constraint].
parentConstraint(s, targets, driven) ==
    Bind(IF ConstraintsOn(s, driven) = {}
         THEN NumberedName(s, driven \o S_parentConstraint)
         ELSE CHOOSE x \in ConstraintsOn(s, driven) : TRUE, LAMBDA c :
    Bind(WithConstraint(s, c, driven), LAMBDA s1 :
    Bind(AddTargets(s1.cons[c], NewTargets(targets, s1.cons[c].targets)),
         LAMBDA con :
        [s |-> [s1 EXCEPT
                  !.cons[c] = con,
                  !.val = [p \in DOMAIN s1.val \cup
                                {Plug(c, con.aliases[i]) :
                                     i \in 1..Len(con.aliases)} |->
                              IF p \in DOMAIN s1.val THEN s1.val[p] ELSE 1]],
         r |-> <<c>>])))

\* cmds.parentConstraint(c, q=True, weightAliasList=True)
weightAliasList(s, c) == s.cons[c].aliases

\* The value the dependency graph gives a plug: that of the plug connected
\* into it; for the output of a reverse node, 1 - input; else the value
\* stored in it.
RECURSIVE getAttr(_, _)
getAttr(s, p) ==
    IF \E c \in s.conns : c.dst = p
    THEN getAttr(s, (CHOOSE c \in s.conns : c.dst = p).src)
    ELSE IF s.node[p.node].type = "reverse" /\ p.attr = outputX
         THEN 1 - getAttr(s, Plug(p.node, inputX))
         ELSE IF p \in DOMAIN s.val THEN s.val[p] ELSE 0

\* cmds.setAttr(node.attr, v) on a user attribute: v within the attribute's
\* minimum and maximum.
setAttr(s, p, v) ==
    LET a == s.attrs[p.node][CHOOSE i \in 1..Len(s.attrs[p.node]) :
                                 s.attrs[p.node][i].longName = p.attr]
        w == IF v < a.min THEN a.min ELSE IF v > a.max THEN a.max ELSE v
    IN  [s EXCEPT !.val = Put(@, p, w)]

\* cmds.setAttr(node.attr, v) on an attribute every node of the type has
\* (overrideEnabled, overrideColor, visibility, lineWidth): v is stored.
setAttr_value(s, p, v) == [s EXCEPT !.val = Put(@, p, v)]

\* cmds.setAttr(node.attr, x, y, z) and cmds.xform(n, translation=[x, y, z]):
\* the triple is stored.
setAttr_triple(s, p, v) == [s EXCEPT !.xf = Put(@, p, v)]

\* cmds.ls(): every node of the scene.
ls_all(s) == s.order

\* cmds.ls(selection=True): the selected nodes; only nodes of the scene can
\* be selected.
ls_selection(s, selection) == SelectSeq(selection, LAMBDA n : Exists(s, n))

\* cmds.nodeType(n)
nodeType(s, n) == s.node[n].type

\* The node types that are shapes.
ShapeTypes == {"nurbsCurve", "locator", "clusterHandle"}

\* cmds.listRelatives(n, shapes=True): the shapes under n, None when there
\* are none.
listRelatives_shapes(s, n) ==
    Bind(SelectSeq(s.order, LAMBDA x : /\ s.node[x].parent = n
                                       /\ s.node[x].type \in ShapeTypes),
         LAMBDA c : IF c = <<>> THEN PyNone ELSE Py(c))

S_Shape == <<"S", "h", "a", "p", "e">>

\* Copies of the shapes under n, put under the node c named name.
RECURSIVE CopyShapes(_, _, _, _)
CopyShapes(s, shapes, c, name) ==
    IF shapes = <<>> THEN s
    ELSE CopyShapes(AddNode(s, UniqueName(s, name \o S_Shape),
                            s.node[Head(shapes)].type, c),
                    Tail(shapes), c, name)

\* cmds.duplicate(n, name=name): a copy of n and of the shapes under it,
\* beside n, with n's attributes and transform values and without its
\* connections; returns [copy].
duplicate_named(s, n, name) ==
    Bind(UniqueName(s, name), LAMBDA c :
    Bind([AddNode(s, c, s.node[n].type, s.node[n].parent) EXCEPT
             !.attrs[c] = s.attrs[n],
             !.val = [p \in DOMAIN s.val \cup
                           {Plug(c, q.attr) : q \in {x \in DOMAIN s.val :
                                                        x.node = n}} |->
                         IF p.node = c THEN s.val[Plug(n, p.attr)]
                         ELSE s.val[p]],
             !.xf = Put(@, Plug(c, translate), Translation(s, n))],
         LAMBDA s1 :
    Bind(listRelatives_shapes(s, n), LAMBDA sh :
        [s |-> CopyShapes(s1, sh.v, c, name), r |-> <<c>>])))

\* cmds.matchTransform(n, target): n is moved to where target is in the
\* world.
matchTransform(s, n, target) ==
    setAttr_triple(s, Plug(n, translate),
                   VSub(xform_query(s, target),
                        xform_query(s, s.node[n].parent)))

\* cmds.xform(n, translation=t, rotation=r, scale=sc)
xform(s, n, t, r, sc) ==
    setAttr_triple(setAttr_triple(setAttr_triple(s, Plug(n, translate), t),
                                  Plug(n, rotate), r),
                   Plug(n, scale), sc)

\* cmds.rename(n, new) on a transform: the node is renamed, and with it a
\* shape under it that is named after it; returns the new name.
rename_transform(s, old, new) ==
    Bind(rename(s, old, new), LAMBDA ren :
        IF Exists(ren.s, old \o S_Shape) /\
           ParentOf(ren.s, old \o S_Shape) = ren.r
        THEN [s |-> rename(ren.s, old \o S_Shape, ren.r \o S_Shape).s,
              r |-> ren.r]
        ELSE ren)

\* A new transform named name in the world with a shape of the given type
\* under it; the scene and the transform's name.
ShapedTransform(s, name, type) ==
    Bind(UniqueName(s, name), LAMBDA n :
    Bind(AddNode(s, n, "transform", World), LAMBDA s1 :
        [s |-> AddNode(s1, UniqueName(s1, n \o S_Shape), type, n), r |-> n]))

\* cmds.spaceLocator(name=name): returns [locator].
spaceLocator(s, name) ==
    Bind(ShapedTransform(s, name, "locator"), LAMBDA l :
        [s |-> l.s, r |-> <<l.r>>])

\* cmds.curve(name=name, degree=1, point=[...]): returns the curve's name.
curve(s, name) == ShapedTransform(s, name, "nurbsCurve")

S_Handle == <<"H", "a", "n", "d", "l", "e">>

\* cmds.cluster(cv, name=name): a cluster deformer on the point and its
\* handle, a transform with a shape; returns [cluster, handle].
cluster(s, cv, name) ==
    Bind(UniqueName(s, name), LAMBDA c :
    Bind(ShapedTransform(AddNode(s, c, "cluster", World), c \o S_Handle,
                         "clusterHandle"), LAMBDA h :
        [s |-> [h.s EXCEPT !.conns = @ \cup
                   {[src |-> Plug(c, <<"o", "u", "t", "p", "u", "t">>),
                     dst |-> cv]}],
         r |-> <<c, h.r>>]))

\* The members of the list put under parent, in order.
RECURSIVE ParentAll(_, _, _)
ParentAll(s, members, parent) ==
    IF members = <<>> THEN s
    ELSE ParentAll(cmds_parent(s, Head(members), parent), Tail(members),
                   parent)

\* cmds.group(members, name=name): a new transform in the world with the
\* members under it; returns its name.
group_members(s, members, name) ==
    Bind(group(s, name, World), LAMBDA g :
        [s |-> ParentAll(g.s, members, g.r), r |-> g.r])

S_poleVectorConstraint ==
    <<"_", "p", "o", "l", "e", "V", "e", "c", "t", "o", "r", "C", "o", "n",
      "s", "t", "r", "a", "i", "n", "t">>
poleVector == <<"p", "o", "l", "e", "V", "e", "c", "t", "o", "r">>

\* cmds.poleVectorConstraint(target, handle): a constraint node under the
\* IK handle, from the target's translation to the handle's pole vector;
\* returns [constraint].
poleVectorConstraint(s, target, handle) ==
    Bind(NumberedName(s, handle \o S_poleVectorConstraint), LAMBDA c :
        [s |-> [AddNode(s, c, "poleVectorConstraint", handle) EXCEPT
                   !.conns = @ \cup
                       {[src |-> Plug(target, translate),
                         dst |-> Plug(c, <<"t", "a", "r", "g", "e", "t">>)],
                        [src |-> Plug(c, <<"c", "o", "n", "s", "t", "r", "a",
                                           "i", "n", "t">>),
                         dst |-> Plug(handle, poleVector)]}],
         r |-> <<c>>])

S_orientConstraint ==
    <<"_", "o", "r", "i", "e", "n", "t", "C", "o", "n", "s", "t", "r", "a",
      "i", "n", "t">>

\* cmds.orientConstraint(target, driven, maintainOffset=True): a constraint
\* node under driven, from the target's rotation to the driven node's;
\* returns [constraint].
orientConstraint(s, target, driven) ==
    Bind(NumberedName(s, driven \o S_orientConstraint), LAMBDA c :
        [s |-> [AddNode(s, c, "orientConstraint", driven) EXCEPT
                   !.conns = @ \cup
                       {[src |-> Plug(target, rotate),
                         dst |-> Plug(c, <<"t", "a", "r", "g", "e", "t">>)],
                        [src |-> Plug(c, <<"c", "o", "n", "s", "t", "r", "a",
                                           "i", "n", "t">>),
                         dst |-> Plug(driven, rotate)]}],
         r |-> <<c>>])

\* cmds.listRelatives(n, parent=True): [parent], None for a node in the
\* world.
listRelatives_parent_any(s, n) ==
    IF ParentOf(s, n) # World THEN Py(<<ParentOf(s, n)>>) ELSE PyNone

\* cmds.listConnections(plug, source=True, destination=False): the nodes
\* connected into the plug, None when there are none.
listConnections_source(s, p) ==
    Bind(SelectSeq(s.order, LAMBDA n :
                       \E c \in s.conns : c.dst = p /\ c.src.node = n),
         LAMBDA l : IF l = <<>> THEN PyNone ELSE Py(l))

(***************************************************************************)
(* base_rig.py                                                             *)
(***************************************************************************)
\* f'{parent}|{child}'
full_path(parent, child) == parent \o <<"|">> \o child

\* A body of the inner loop with the existence test dropped: the child is
\* created on every call.
EnsureChildAlways(s, root, parent, child) ==
    group(s, child, IF parent = ROOT THEN root ELSE parent).s

\* A body of the inner loop that parents every child under root.
EnsureChildFlat(s, root, parent, child) ==
    IF ~objExists(s, full_path(parent, child))
    THEN group(s, child, root).s
    ELSE s

\* One body of the inner loop: create child under parent unless the path
\* parent|child already names a node.
EnsureChild(s, root, parent, child) ==
    IF ~objExists(s, full_path(parent, child))
    THEN IF parent = ROOT
         THEN group(s, child, root).s
         ELSE group(s, child, parent).s
    ELSE s

\* for child in children: ...
RECURSIVE EnsureChildren(_, _, _, _)
EnsureChildren(s, root, parent, children) ==
    IF children = <<>> THEN s
    ELSE Bind(EnsureChild(s, root, parent, Head(children)), LAMBDA s1 :
             EnsureChildren(s1, root, parent, Tail(children)))

\* for parent, children in hierarchy.items(): ...
RECURSIVE EnsureHierarchy(_, _, _)
EnsureHierarchy(s, root, items) ==
    IF items = <<>> THEN s
    ELSE Bind(EnsureChildren(s, root, Head(items).parent,
                             Head(items).children), LAMBDA s1 :
             EnsureHierarchy(s1, root, Tail(items)))

\* build_groups(): the scene it leaves and the name it returns.
build_groups(s) ==
    Bind(IF ~objExists(s, ROOT)
         THEN group(s, ROOT, World)
         ELSE [s |-> s, r |-> ROOT], LAMBDA st :
        [s |-> EnsureHierarchy(st.s, st.r, hierarchy), r |-> st.r])

(***************************************************************************)
(* joint_utils.py                                                          *)
(***************************************************************************)
S_jnt == <<"_", "j", "n", "t">>
S_FK == <<"_", "F", "K">>
S_IK == <<"_", "I", "K">>

\* The dictionary get_joint_info builds for the selected joints.
joint_info(s, selected_joints) ==
    [j \in Range(selected_joints) |->
        LET p == listRelatives_parent(s, j)
            c == listRelatives_children(s, j)
        IN  [parent |-> IF ~p.none THEN Py(p.v[1]) ELSE PyNone,
             children |-> IF ~c.none THEN c.v ELSE <<>>]]

\* get_joint_info(): the value it returns.  The function ends after the loop
\* that fills joint_info, without a return statement.
get_joint_info(s, selection) ==
    LET selected_joints == ls_joints(s, selection)
    IN  IF selected_joints = <<>> THEN PyNone
        ELSE LET info == joint_info(s, selected_joints)
             IN  PyNone

\* A loop body that names the copy without removing '_jnt'.
DuplicateOneKeepJnt(st, joint, suffix) ==
    Bind(duplicate(st.s, joint), LAMBDA duplicated :
    Bind(rename(duplicated.s, duplicated.r[1], joint \o suffix),
         LAMBDA renamed :
        [s |-> renamed.s, r |-> Append(st.r, renamed.r)]))

\* A loop body that puts each copy first in the list.
DuplicateOnePrepend(st, joint, suffix) ==
    Bind(duplicate(st.s, joint), LAMBDA duplicated :
    Bind(rename(duplicated.s, duplicated.r[1],
                replace(joint, S_jnt, <<>>) \o suffix), LAMBDA renamed :
        [s |-> renamed.s, r |-> <<renamed.r>> \o st.r]))

\* One body of the first loop: duplicate joint, rename the copy, append it.
DuplicateOne(st, joint, suffix) ==
    Bind(duplicate(st.s, joint), LAMBDA duplicated :
        IF duplicated.r # <<>>
        THEN LET base_name == replace(joint, S_jnt, <<>>)
                 new_name == base_name \o suffix
             IN  Bind(rename(duplicated.s, duplicated.r[1], new_name),
                      LAMBDA renamed :
                     [s |-> renamed.s, r |-> Append(st.r, renamed.r)])
        ELSE [s |-> duplicated.s, r |-> st.r])

\* for joint in joints: ...
RECURSIVE DuplicateAll(_, _, _)
DuplicateAll(st, joints, suffix) ==
    IF joints = <<>> THEN st
    ELSE Bind(DuplicateOne(st, Head(joints), suffix), LAMBDA st1 :
             DuplicateAll(st1, Tail(joints), suffix))

\* A second loop that parents every copy under the first one.
RECURSIVE ChainFromFirst(_, _, _)
ChainFromFirst(s, new_joints, i) ==
    IF i >= Len(new_joints) THEN s
    ELSE Bind(cmds_parent(s, new_joints[i + 1], new_joints[1]), LAMBDA s1 :
             ChainFromFirst(s1, new_joints, i + 1))

\* for i in range(1, len(new_joints)): parent new_joints[i] to
\* new_joints[i - 1]; i counts from 1 as in the source, the list from 1 as
\* in TLA+.
RECURSIVE ChainFrom(_, _, _)
ChainFrom(s, new_joints, i) ==
    IF i >= Len(new_joints) THEN s
    ELSE Bind(cmds_parent(s, new_joints[i + 1], new_joints[i]), LAMBDA s1 :
             ChainFrom(s1, new_joints, i + 1))

\* duplicate_and_rename_joints(joints, suffix)
duplicate_and_rename_joints(s, joints, suffix) ==
    Bind(DuplicateAll([s |-> s, r |-> <<>>], joints, suffix), LAMBDA st :
        [s |-> IF Len(st.r) > 1 THEN ChainFrom(st.s, st.r, 1) ELSE st.s,
         r |-> st.r])

(***************************************************************************)
(* fk_build.py                                                             *)
(***************************************************************************)
\* build_fk()
build_fk(s, selection) ==
    Bind(ls_joints(s, selection), LAMBDA selected_joints :
        IF selected_joints = <<>> THEN [s |-> s, r |-> PyNone]
        ELSE Bind(duplicate_and_rename_joints(s, selected_joints, S_FK),
                  LAMBDA fk_joints : [s |-> fk_joints.s, r |-> Py(fk_joints.r)]))

(***************************************************************************)
(* ik_build.py                                                             *)
(***************************************************************************)
S_ikHandle == <<"_", "i", "k", "H", "a", "n", "d", "l", "e">>

\* create_ik_handle(start_joint, end_joint)
create_ik_handle(s, start_joint, end_joint) ==
    LET base_name == replace(start_joint, S_IK, <<>>)
        ik_handle_name == base_name \o S_ikHandle
    IN  Bind(ikHandle(s, ik_handle_name, start_joint, end_joint,
                      "ikRPsolver", "off"), LAMBDA ik_handle :
            [s |-> ik_handle.s, r |-> ik_handle.r[1]])

\* The selection test of build_ik with the count test too weak.
ValidIkSelectionAtLeast(selected_joints) == Len(selected_joints) >= 3

\* The selection build_ik accepts: some joints, and exactly three of them.
ValidIkSelection(selected_joints) ==
    ~(selected_joints = <<>>) /\ ~(Len(selected_joints) # 3)

\* build_ik(): the tuple it returns.
build_ik(s, selection) ==
    Bind(ls_joints(s, selection), LAMBDA selected_joints :
        IF ~ValidIkSelection(selected_joints)
        THEN [s |-> s, r |-> <<PyNone, PyNone>>]
        ELSE Bind(duplicate_and_rename_joints(s, selected_joints, S_IK),
                  LAMBDA d :
                 IF d.r # <<>>
                 THEN Bind(create_ik_handle(d.s, d.r[1], d.r[Len(d.r)]),
                           LAMBDA h :
                          [s |-> h.s, r |-> <<Py(d.r), Py(h.r)>>])
                 ELSE [s |-> d.s, r |-> <<PyNone, PyNone>>]))

(***************************************************************************)
(* control_utils.py                                                        *)
(***************************************************************************)
\* add_fkik_switch_attribute without the test for an attribute already there.
add_fkik_switch_attribute_unguarded(s, control) ==
    IF ~objExists(s, control) THEN [s |-> s, r |-> FALSE]
    ELSE [s |-> addAttr(s, control, FKIK_Switch, "float", 0, 1, 0, TRUE),
          r |-> TRUE]

\* add_fkik_switch_attribute(control)
add_fkik_switch_attribute(s, control) ==
    IF ~objExists(s, control) THEN [s |-> s, r |-> FALSE]
    ELSE IF ~attributeQuery(s, FKIK_Switch, control)
         THEN [s |-> addAttr(s, control, FKIK_Switch, "float", 0, 1, 0, TRUE),
               r |-> TRUE]
         ELSE [s |-> s, r |-> FALSE]

(***************************************************************************)
(* fkik_blend_build.py                                                     *)
(***************************************************************************)
\* The three lists of match_joints before they are sorted: joints split by
\* suffix, in input order.
RECURSIVE SplitBySuffix(_, _)
SplitBySuffix(joints, acc) ==
    IF joints = <<>> THEN acc
    ELSE LET joint == Head(joints)
         IN  SplitBySuffix(Tail(joints),
                 IF endswith(joint, S_FK)
                 THEN [acc EXCEPT !.fk = Append(@, joint)]
                 ELSE IF endswith(joint, S_IK)
                      THEN [acc EXCEPT !.ik = Append(@, joint)]
                      ELSE [acc EXCEPT !.export = Append(@, joint)])

\* match_joints(joints): the tuple (export_joints, fk_joints, ik_joints).
match_joints(joints) ==
    Bind(SplitBySuffix(joints, [export |-> <<>>, fk |-> <<>>, ik |-> <<>>]),
         LAMBDA lists :
        <<sort(lists.export), sort(lists.fk), sort(lists.ik)>>)

S_l == <<"l", "_">>
S_r == <<"r", "_">>
S_FKIK_reverse ==
    <<"F", "K", "I", "K", "_", "r", "e", "v", "e", "r", "s", "e">>

\* A length test that lets through lists of which only two agree.
LengthsDifferBoth(export_joints, fk_joints, ik_joints) ==
    Len(export_joints) # Len(fk_joints) /\ Len(export_joints) # Len(ik_joints)

\* The test create_fkik_blend_joints starts with.
LengthsDiffer(export_joints, fk_joints, ik_joints) ==
    Len(export_joints) # Len(fk_joints) \/ Len(export_joints) # Len(ik_joints)

\* A loop body with the two weights wired the other way round.
BlendOneSwapped(st, export_joint, fk_joint, ik_joint, control, reverse_node) ==
    Bind(parentConstraint(st.s, <<fk_joint, ik_joint>>, export_joint),
         LAMBDA pc :
    Bind(weightAliasList(pc.s, pc.r[1]), LAMBDA weights :
    Bind(connectAttr(pc.s, PlugName(control, FKIK_Switch),
                     PlugName(pc.r[1], weights[1])), LAMBDA c1 :
    Bind(connectAttr(c1.s, PlugName(reverse_node, outputX),
                     PlugName(pc.r[1], weights[2])), LAMBDA c2 :
        [s |-> c2.s, r |-> Append(st.r, pc.r[1]),
         exc |-> IF c1.ok /\ c2.ok THEN "none" ELSE "RuntimeError"]))))

\* One body of the loop over zip(export_joints, fk_joints, ik_joints):
\* constrain the export joint to its FK and IK joint, drive the IK weight
\* (weights[1] in Python, the second) by the switch and the FK weight
\* (weights[0], the first) by the reverse node.  A connectAttr that raises
\* ends the call.
BlendOne(st, export_joint, fk_joint, ik_joint, control, reverse_node) ==
    Bind(parentConstraint(st.s, <<fk_joint, ik_joint>>, export_joint),
         LAMBDA pc :
    Bind(weightAliasList(pc.s, pc.r[1]), LAMBDA weights :
    Bind(connectAttr(pc.s, PlugName(control, FKIK_Switch),
                     PlugName(pc.r[1], weights[2])), LAMBDA c1 :
        IF ~c1.ok THEN [s |-> pc.s, r |-> st.r, exc |-> "RuntimeError"]
        ELSE
    Bind(connectAttr(c1.s, PlugName(reverse_node, outputX),
                     PlugName(pc.r[1], weights[1])), LAMBDA c2 :
        IF ~c2.ok THEN [s |-> c1.s, r |-> st.r, exc |-> "RuntimeError"]
        ELSE [s |-> c2.s, r |-> Append(st.r, pc.r[1]), exc |-> "none"]))))

\* for export_joint, fk_joint, ik_joint in zip(...): ...
RECURSIVE BlendLoop(_, _, _, _, _, _, _)
BlendLoop(st, export_joints, fk_joints, ik_joints, control, reverse_node, i) ==
    IF st.exc # "none" \/ i > Len(export_joints) THEN st
    ELSE Bind(BlendOne(st, export_joints[i], fk_joints[i], ik_joints[i],
                       control, reverse_node), LAMBDA st1 :
             BlendLoop(st1, export_joints, fk_joints, ik_joints, control,
                       reverse_node, i + 1))

\* create_fkik_blend_joints(export_joints, fk_joints, ik_joints, control):
\* the scene it leaves, the value it returns, the exception it ends with.
create_fkik_blend_joints(s, export_joints, fk_joints, ik_joints, control) ==
    IF LengthsDiffer(export_joints, fk_joints, ik_joints)
    THEN [s |-> s, r |-> PyNone, exc |-> "none"]
    ELSE
    Bind(add_fkik_switch_attribute(s, control).s, LAMBDA s1 :
        IF export_joints = <<>>
        THEN [s |-> s1, r |-> PyNone, exc |-> "IndexError"]
        ELSE
        LET side_prefix == IF startswith(export_joints[1], S_l)
                           THEN S_l ELSE S_r
        IN
    Bind(createNode(s1, "reverse", side_prefix \o S_FKIK_reverse),
         LAMBDA reverse_node :
    Bind(connectAttr(reverse_node.s, PlugName(control, FKIK_Switch),
                     PlugName(reverse_node.r, inputX)), LAMBDA c :
        IF ~c.ok
        THEN [s |-> reverse_node.s, r |-> PyNone, exc |-> "RuntimeError"]
        ELSE
    Bind(BlendLoop([s |-> c.s, r |-> <<>>, exc |-> "none"],
                   export_joints, fk_joints, ik_joints,
                   control, reverse_node.r, 1), LAMBDA done :
        [s |-> done.s,
         r |-> IF done.exc = "none" THEN Py(done.r) ELSE PyNone,
         exc |-> done.exc]))))

\* build_fkik_blend()
build_fkik_blend(s, selected) ==
    IF Len(selected) < 4 THEN [s |-> s, r |-> PyNone, exc |-> "none"]
    ELSE
    LET control == selected[Len(selected)]
        joints == SubSeq(selected, 1, Len(selected) - 1)
    IN  Bind(match_joints(joints), LAMBDA m :
            IF ~(m[1] # <<>> /\ m[2] # <<>> /\ m[3] # <<>>)
            THEN [s |-> s, r |-> PyNone, exc |-> "none"]
            ELSE create_fkik_blend_joints(s, m[1], m[2], m[3], control))

(***************************************************************************)
(* control_creation.py                                                     *)
(***************************************************************************)
S_ctrl == <<"_", "c", "t", "r", "l">>
S_offset == <<"_", "o", "f", "f", "s", "e", "t">>
S__FKIK_reverse == <<"_">> \o S_FKIK_reverse
overrideEnabled ==
    <<"o", "v", "e", "r", "r", "i", "d", "e", "E", "n", "a", "b", "l", "e", "d">>
overrideColor ==
    <<"o", "v", "e", "r", "r", "i", "d", "e", "C", "o", "l", "o", "r">>

\* sub in s
Contains(s, sub) ==
    \E i \in 1..(Len(s) - Len(sub) + 1) : SubSeq(s, i, i + Len(sub) - 1) = sub

\* joint.replace('_FK', suffix) if '_FK' in joint else f"{joint}{suffix}"
ControlName(joint, suffix) ==
    IF Contains(joint, S_FK) THEN replace(joint, S_FK, suffix)
    ELSE joint \o suffix

\* for obj in cmds.ls(): if cmds.attributeQuery('FKIK_Switch', node=obj,
\* exists=True): switch_ctrl = obj; break
FindSwitch(s) ==
    Bind(SelectSeq(ls_all(s), LAMBDA obj : attributeQuery(s, FKIK_Switch, obj)),
         LAMBDA found : IF found = <<>> THEN PyNone ELSE Py(found[1]))

\* The steps of the loop body after the offset group is made and the
\* control is under it, with the node the offset group of a later joint
\* goes under: constrain the joint, zero the control, wire the visibility.
FkControlRest(st, s, joint, new_control, offset_group, reverse_node, under) ==
    Bind(IF st.r # <<>> THEN cmds_parent(s, offset_group, under) ELSE s,
         LAMBDA s5 :
    Bind(parentConstraint(s5, <<new_control>>, joint).s, LAMBDA s6 :
    Bind(xform(s6, new_control, <<0, 0, 0>>, <<0, 0, 0>>, <<1, 1, 1>>),
         LAMBDA s7 :
        IF reverse_node.none
        THEN [s |-> s7, r |-> Append(st.r, new_control), exc |-> "none"]
        ELSE
    Bind(connectAttr(s7, PlugName(reverse_node.v, outputX),
                     PlugName(offset_group, visibility)), LAMBDA c :
        IF ~c.ok THEN [s |-> s7, r |-> st.r, exc |-> "RuntimeError"]
        ELSE [s |-> c.s, r |-> Append(st.r, new_control), exc |-> "none"]))))

\* The steps of the loop body up to the control under its offset group:
\* duplicate the template, colour its shape, make the offset group at the
\* joint, put the control under it.  The scene, the control and the group.
FkControlMake(s, control_template, joint) ==
    Bind(duplicate_named(s, control_template, ControlName(joint, S_ctrl)),
         LAMBDA dup :
    Bind(listRelatives_shapes(dup.s, dup.r[1]), LAMBDA shapes :
        IF shapes.none
        THEN [s |-> dup.s, ctrl |-> dup.r[1], grp |-> <<>>, exc |-> "TypeError"]
        ELSE
    Bind(setAttr_value(dup.s, Plug(shapes.v[1], overrideEnabled), 1),
         LAMBDA s1 :
    Bind(setAttr_value(s1, Plug(shapes.v[1], overrideColor), 6), LAMBDA s2 :
    Bind(group(s2, ControlName(joint, S_offset), World), LAMBDA grp :
    Bind(matchTransform(grp.s, grp.r, joint), LAMBDA s3 :
        [s |-> cmds_parent(s3, dup.r[1], grp.r), ctrl |-> dup.r[1],
         grp |-> grp.r, exc |-> "none"]))))))

\* A loop body that puts the offset group under the offset group of the
\* previous control.
FkControlOneUnderOffset(st, control_template, joint, reverse_node) ==
    Bind(FkControlMake(st.s, control_template, joint), LAMBDA m :
        IF m.exc # "none" THEN [s |-> m.s, r |-> st.r, exc |-> m.exc]
        ELSE FkControlRest(st, m.s, joint, m.ctrl, m.grp, reverse_node,
                           IF st.r # <<>>
                           THEN ParentOf(m.s, st.r[Len(st.r)]) ELSE World))

\* One body of the loop over enumerate(joints); st.r is created_controls.
\* For i > 0 the offset group goes under created_controls[-1].
FkControlOne(st, control_template, joint, reverse_node) ==
    Bind(FkControlMake(st.s, control_template, joint), LAMBDA m :
        IF m.exc # "none" THEN [s |-> m.s, r |-> st.r, exc |-> m.exc]
        ELSE FkControlRest(st, m.s, joint, m.ctrl, m.grp, reverse_node,
                           IF st.r # <<>> THEN st.r[Len(st.r)] ELSE World))

\* for i, joint in enumerate(joints): ...
RECURSIVE FkControlLoop(_, _, _, _, _)
FkControlLoop(st, control_template, joints, reverse_node, i) ==
    IF st.exc # "none" \/ i > Len(joints) THEN st
    ELSE Bind(FkControlOne(st, control_template, joints[i], reverse_node),
              LAMBDA st1 :
             FkControlLoop(st1, control_template, joints, reverse_node, i + 1))

\* create_fk_controls(control_template, joints): the scene it leaves, the
\* list it returns, the exception it ends with.
create_fk_controls(s, control_template, joints) ==
    IF ~objExists(s, control_template) THEN [s |-> s, r |-> <<>>, exc |-> "none"]
    ELSE IF joints = <<>> THEN [s |-> s, r |-> <<>>, exc |-> "none"]
    ELSE
    Bind(FindSwitch(s), LAMBDA switch_ctrl :
    Bind(IF switch_ctrl.none THEN [s |-> s, r |-> <<>>]
         ELSE createNode(s, "reverse", switch_ctrl.v \o S__FKIK_reverse),
         LAMBDA rev :
    Bind(IF switch_ctrl.none THEN [s |-> s, ok |-> TRUE]
         ELSE connectAttr(rev.s, PlugName(switch_ctrl.v, FKIK_Switch),
                          PlugName(rev.r, inputX)), LAMBDA c :
        IF ~c.ok THEN [s |-> rev.s, r |-> <<>>, exc |-> "RuntimeError"]
        ELSE FkControlLoop([s |-> c.s, r |-> <<>>, exc |-> "none"],
                           control_template, joints,
                           IF switch_ctrl.none THEN PyNone ELSE Py(rev.r),
                           1))))

S_ik_ctrl == <<"_", "i", "k", "_", "c", "t", "r", "l">>
S_ik_offset == <<"_", "i", "k", "_", "o", "f", "f", "s", "e", "t">>

\* joint.replace('_IK', suffix) if '_IK' in joint else f"{joint}{suffix}"
IkControlName(joint, suffix) ==
    IF Contains(joint, S_IK) THEN replace(joint, S_IK, suffix)
    ELSE joint \o suffix

\* create_ik_control(control_template, joint), the two names left to their
\* defaults: the scene it leaves and the pair it returns.
create_ik_control(s, control_template, joint) ==
    IF ~objExists(s, control_template) THEN [s |-> s, r |-> <<PyNone, PyNone>>]
    ELSE IF joint = <<>> THEN [s |-> s, r |-> <<PyNone, PyNone>>]
    ELSE
    Bind(duplicate_named(s, control_template, IkControlName(joint, S_ik_ctrl)),
         LAMBDA control :
    Bind(group(control.s, IkControlName(joint, S_ik_offset), World),
         LAMBDA offset_group :
    Bind(matchTransform(offset_group.s, offset_group.r, joint), LAMBDA s1 :
    Bind(cmds_parent(s1, control.r[1], offset_group.r), LAMBDA s2 :
        [s |-> setAttr_triple(
                   setAttr_triple(
                       setAttr_triple(s2, Plug(control.r[1], translate),
                                      <<0, 0, 0>>),
                       Plug(control.r[1], rotate), <<0, 0, 0>>),
                   Plug(control.r[1], scale), <<1, 1, 1>>),
         r |-> <<Py(control.r[1]), Py(offset_group.r)>>]))))

\* shape_nodes = cmds.listRelatives(control_template, shapes=True) or [];
\* not shape_nodes or cmds.nodeType(shape_nodes[0]) != "nurbsCurve"
NotACurve(s, control_template) ==
    Bind(listRelatives_shapes(s, control_template), LAMBDA shape_nodes :
        shape_nodes.none \/ nodeType(s, shape_nodes.v[1]) # "nurbsCurve")

\* run_create_ik_control(): the scene it leaves, the pair it returns, the
\* exception it ends with (cmds.error raises).
run_create_ik_control(s, selected) ==
    Bind(ls_selection(s, selected), LAMBDA selection :
        IF Len(selection) # 2
        THEN [s |-> s, r |-> <<PyNone, PyNone>>, exc |-> "RuntimeError"]
        ELSE IF NotACurve(s, selection[1])
        THEN [s |-> s, r |-> <<PyNone, PyNone>>, exc |-> "RuntimeError"]
        ELSE IF nodeType(s, selection[2]) # "joint"
        THEN [s |-> s, r |-> <<PyNone, PyNone>>, exc |-> "RuntimeError"]
        ELSE Bind(create_ik_control(s, selection[1], selection[2]),
                  LAMBDA made : [s |-> made.s, r |-> made.r, exc |-> "none"]))

\* run_create_fk_controls(): the scene it leaves and the exception it ends
\* with; it returns None.
run_create_fk_controls(s, selected) ==
    Bind(ls_selection(s, selected), LAMBDA selection :
        IF Len(selection) < 2 THEN [s |-> s, exc |-> "RuntimeError"]
        ELSE IF NotACurve(s, selection[1]) THEN [s |-> s, exc |-> "RuntimeError"]
        ELSE IF nodeType(s, selection[Len(selection)]) # "joint"
        THEN [s |-> s, exc |-> "RuntimeError"]
        ELSE Bind(create_fk_controls(s, selection[1], Tail(selection)),
                  LAMBDA made : [s |-> made.s, exc |-> made.exc]))

(***************************************************************************)
(* ik_controls_setup.py                                                    *)
(***************************************************************************)
S_pv_ctrl == <<"_", "p", "v", "_", "c", "t", "r", "l">>
S_pv_loc1 == <<"_", "p", "v", "_", "l", "o", "c", "1">>
S_pv_loc2 == <<"_", "p", "v", "_", "l", "o", "c", "2">>
S_pv_line == <<"_", "p", "v", "_", "l", "i", "n", "e">>
S_pv_clust1 == <<"_", "p", "v", "_", "c", "l", "u", "s", "t", "1">>
S_pv_clust2 == <<"_", "p", "v", "_", "c", "l", "u", "s", "t", "2">>
S_pv_line_grp == S_pv_line \o <<"_", "g", "r", "p">>
localScale == <<"l", "o", "c", "a", "l", "S", "c", "a", "l", "e">>
lineWidth == <<"l", "i", "n", "e", "W", "i", "d", "t", "h">>
cv0 == <<"c", "v", "[", "0", "]">>
cv1 == <<"c", "v", "[", "1", "]">>

\* x ** 0.5 for x the square of a whole number, where the float result is
\* that number.
Sqrt(x) == CHOOSE r \in 0..x : r * r = x

\* x * 0.8 for x a whole multiple of 5, where the float result is the whole
\* number 4x/5.
Times08(x) == CHOOSE r \in 0..x : 5 * r = 4 * x

\* get_distance(pos1, pos2), lines 113-116: the third term is
\* pos2[2] - pos2[2].
get_distance(pos1, pos2) ==
    Sqrt((pos2[1] - pos1[1]) * (pos2[1] - pos1[1])
         + (pos2[2] - pos1[2]) * (pos2[2] - pos1[2])
         + (pos2[3] - pos2[3]) * (pos2[3] - pos2[3]))

\* for loc in [loc1, loc2]: localScale 0.1 (kept in tenths), visibility 0.
HideLocator(s, loc) ==
    setAttr_value(setAttr_triple(s, Plug(loc, localScale), <<1, 1, 1>>),
                  Plug(loc, visibility), 0)

\* create_pole_vector_line(mid_joint, pv_control): the scene it leaves and
\* the group it returns.
create_pole_vector_line(s, mid_joint, pv_control) ==
    Bind(spaceLocator(s, mid_joint \o S_pv_loc1), LAMBDA loc1 :
    Bind(spaceLocator(loc1.s, mid_joint \o S_pv_loc2), LAMBDA loc2 :
    Bind(HideLocator(HideLocator(loc2.s, loc1.r[1]), loc2.r[1]), LAMBDA s1 :
    Bind(parentConstraint(s1, <<mid_joint>>, loc1.r[1]).s, LAMBDA s2 :
    Bind(parentConstraint(s2, <<pv_control>>, loc2.r[1]).s, LAMBDA s3 :
    Bind(curve(s3, mid_joint \o S_pv_line), LAMBDA line :
    Bind(cluster(line.s, Plug(line.r, cv0), mid_joint \o S_pv_clust1),
         LAMBDA clust1 :
    Bind(cluster(clust1.s, Plug(line.r, cv1), mid_joint \o S_pv_clust2),
         LAMBDA clust2 :
    Bind(setAttr_value(setAttr_value(clust2.s, Plug(clust1.r[2], visibility),
                                     0),
                       Plug(clust2.r[2], visibility), 0), LAMBDA s4 :
    Bind(parentConstraint(s4, <<loc1.r[1]>>, clust1.r[2]).s, LAMBDA s5 :
    Bind(parentConstraint(s5, <<loc2.r[1]>>, clust2.r[2]).s, LAMBDA s6 :
    Bind(group_members(s6, <<line.r, loc1.r[1], loc2.r[1], clust1.r[2],
                             clust2.r[2]>>, mid_joint \o S_pv_line_grp),
         LAMBDA line_grp :
    Bind(listRelatives_shapes(line_grp.s, line.r).v[1], LAMBDA curve_shape :
        [s |-> setAttr_value(
                   setAttr_value(
                       setAttr_value(line_grp.s, Plug(curve_shape, lineWidth),
                                     1),
                       Plug(curve_shape, overrideEnabled), 1),
                   Plug(curve_shape, overrideColor), 18),
         r |-> line_grp.r])))))))))))))

\* setup_pole_vector(pv_curve, ik_joints, ik_handle, ik_control): the scene
\* it leaves, the control it returns, the exception it ends with.
setup_pole_vector(s, pv_curve, ik_joints, ik_handle, ik_control) ==
    IF ~Exists(s, pv_curve) THEN [s |-> s, r |-> PyNone, exc |-> "RuntimeError"]
    ELSE
    LET mid_joint == ik_joints[2]
        base_name == replace(mid_joint, S_IK, <<>>)
        pv_control_name == base_name \o S_pv_ctrl
    IN
    Bind(rename_transform(s, pv_curve, pv_control_name), LAMBDA pv_control :
    Bind(group(pv_control.s, pv_control_name \o S_offset, World),
         LAMBDA pv_offset :
    Bind(xform_query(pv_offset.s, ik_joints[1]), LAMBDA start_pos :
    Bind(xform_query(pv_offset.s, mid_joint), LAMBDA mid_pos :
    Bind(xform_query(pv_offset.s, ik_joints[3]), LAMBDA end_pos :
    Bind(get_distance(start_pos, mid_pos) + get_distance(mid_pos, end_pos),
         LAMBDA chain_length :
    Bind(Times08(chain_length), LAMBDA offset_dist :
    Bind(setAttr_triple(pv_offset.s, Plug(pv_offset.r, translate),
                        <<mid_pos[1], mid_pos[2], mid_pos[3] - offset_dist>>),
         LAMBDA s1 :
    Bind(cmds_parent(s1, pv_control.r, pv_offset.r), LAMBDA s2 :
    Bind(setAttr_triple(
             setAttr_triple(
                 setAttr_triple(s2, Plug(pv_control.r, translate),
                                <<0, 0, 0>>),
                 Plug(pv_control.r, rotate), <<0, 0, 0>>),
             Plug(pv_control.r, scale), <<1, 1, 1>>), LAMBDA s3 :
    Bind(poleVectorConstraint(s3, pv_control.r, ik_handle).s, LAMBDA s4 :
    Bind(cmds_parent(s4, pv_offset.r, ik_control), LAMBDA s5 :
        [s |-> create_pole_vector_line(s5, mid_joint, pv_control.r).s,
         r |-> Py(pv_control.r), exc |-> "none"]))))))))))))

\* ik_controls_setup.create_ik_handle(start_joint, end_joint): the handle
\* is made without the sticky flag.
setup_create_ik_handle(s, start_joint, end_joint) ==
    LET base_name == replace(start_joint, S_IK, <<>>)
        ik_handle_name == base_name \o S_ikHandle
    IN  Bind(ikHandle(s, ik_handle_name, start_joint, end_joint,
                      "ikRPsolver", "<not passed>"), LAMBDA ik_handle :
            [s |-> ik_handle.s, r |-> ik_handle.r[1]])

\* One body of the loop over visible_items: the visibility of the item's
\* parent, or of the item when it is in the world, is driven by the switch
\* unless something drives it already.  st.ok is False once connectAttr
\* has raised.
ConnectVisibility(st, switch_ctrl, item) ==
    IF ~st.ok \/ ~objExists(st.s, item) THEN st
    ELSE
    Bind(listRelatives_parent_any(st.s, item), LAMBDA parent :
    Bind(IF parent.none THEN item ELSE parent.v[1], LAMBDA vis_target :
        IF ~listConnections_source(st.s, Plug(vis_target, visibility)).none
        THEN st
        ELSE connectAttr(st.s, PlugName(switch_ctrl, FKIK_Switch),
                         PlugName(vis_target, visibility))))

\* for item in visible_items: ...
RECURSIVE ConnectVisibilities(_, _, _)
ConnectVisibilities(st, switch_ctrl, visible_items) ==
    IF visible_items = <<>> THEN st
    ELSE ConnectVisibilities(
             ConnectVisibility(st, switch_ctrl, Head(visible_items)),
             switch_ctrl, Tail(visible_items))

\* The three values setup_ik_controls returns when it gives up.
NoneNoneNone == <<PyNone, PyNone, PyNone>>

\* setup_ik_controls(): the scene it leaves, the triple it returns, the
\* exception it ends with.
setup_ik_controls(s, selected) ==
    Bind(ls_selection(s, selected), LAMBDA selection :
        IF Len(selection) # 9
        THEN [s |-> s, r |-> NoneNoneNone, exc |-> "none"]
        ELSE
        LET ik_joints == SubSeq(selection, 1, 3)
            export_joints == SubSeq(selection, 4, 6)
            ik_control_curve == selection[7]
            pv_curve == selection[8]
            switch_ctrl == selection[9]
        IN
        IF \E joint \in Range(ik_joints \o export_joints) :
               nodeType(s, joint) # "joint"
        THEN [s |-> s, r |-> NoneNoneNone, exc |-> "none"]
        ELSE IF listRelatives_shapes(s, ik_control_curve).none
        THEN [s |-> s, r |-> NoneNoneNone, exc |-> "TypeError"]
        ELSE IF nodeType(s, listRelatives_shapes(s, ik_control_curve).v[1])
                    # "nurbsCurve"
        THEN [s |-> s, r |-> NoneNoneNone, exc |-> "none"]
        ELSE IF listRelatives_shapes(s, pv_curve).none
        THEN [s |-> s, r |-> NoneNoneNone, exc |-> "TypeError"]
        ELSE IF nodeType(s, listRelatives_shapes(s, pv_curve).v[1])
                    # "nurbsCurve"
        THEN [s |-> s, r |-> NoneNoneNone, exc |-> "none"]
        ELSE
    Bind(setup_create_ik_handle(s, ik_joints[1], ik_joints[3]),
         LAMBDA ik_handle :
    Bind(create_ik_control(ik_handle.s, ik_control_curve, ik_joints[3]),
         LAMBDA control :
    Bind(orientConstraint(control.s, control.r[1].v, ik_joints[3]).s,
         LAMBDA s1 :
    Bind(cmds_parent(s1, ik_handle.r, control.r[1].v), LAMBDA s2 :
    Bind(setup_pole_vector(s2, pv_curve, ik_joints, ik_handle.r,
                           control.r[1].v), LAMBDA pv_control :
        IF pv_control.exc # "none"
        THEN [s |-> pv_control.s, r |-> NoneNoneNone, exc |-> pv_control.exc]
        ELSE IF ~attributeQuery(pv_control.s, FKIK_Switch, switch_ctrl)
        THEN [s |-> pv_control.s,
              r |-> <<Py(ik_handle.r), control.r[1], pv_control.r>>,
              exc |-> "none"]
        ELSE
    Bind(ConnectVisibilities(
             [s |-> pv_control.s, ok |-> TRUE], switch_ctrl,
             <<control.r[1].v, pv_control.r.v, ik_handle.r,
               ik_joints[2] \o S_pv_line_grp>> \o ik_joints), LAMBDA wired :
        IF ~wired.ok
        THEN [s |-> wired.s, r |-> NoneNoneNone, exc |-> "RuntimeError"]
        ELSE [s |-> wired.s,
              r |-> <<Py(ik_handle.r), control.r[1], pv_control.r>>,
              exc |-> "none"])))))))

(***************************************************************************)
(* Scenes the scripts are run on.                                          *)
(***************************************************************************)
\* The seven groups with their expected parents, parents first.
GroupParent ==
    << <<ROOT, World>>, <<CONTROLS, ROOT>>, <<DO_NOT_TOUCH, ROOT>>,
       <<EXPORT_SKELETON, DO_NOT_TOUCH>>, <<GEO, DO_NOT_TOUCH>>,
       <<RIG_DEFORMERS, DO_NOT_TOUCH>>, <<RIG_SYSTEMS, DO_NOT_TOUCH>> >>

GroupNames == {GroupParent[i][1] : i \in 1..Len(GroupParent)}

\* Sets of groups that can be present with each one under its expected
\* parent: a group is present only if its parent is.
GroupSets ==
    {P \in SUBSET GroupNames :
        \A i \in 1..Len(GroupParent) :
            GroupParent[i][1] \in P =>
                GroupParent[i][2] = World \/ GroupParent[i][2] \in P}

\* The scene s with the transforms of present added under their parents.
RECURSIVE WithGroups(_, _, _)
WithGroups(s, present, i) ==
    IF i > Len(GroupParent) THEN s
    ELSE WithGroups(
             IF GroupParent[i][1] \in present
             THEN AddNode(s, GroupParent[i][1], "transform", GroupParent[i][2])
             ELSE s,
             present, i + 1)

\* The export joints of the scenes, and the transform used as a control.
l_a_jnt == <<"l", "_", "a", "_", "j", "n", "t">>
l_a_b_jnt == <<"l", "_", "a", "_", "b", "_", "j", "n", "t">>
r_c == <<"r", "_", "c">>
r_jnt_d == <<"r", "_", "j", "n", "t", "_", "d">>
ctrl == <<"c", "t", "r", "l">>

Joints == <<l_a_jnt, l_a_b_jnt, r_c, r_jnt_d>>

\* A joint left by an earlier FK build, whose name the next build asks for.
l_a_FK == <<"l", "_", "a", "_", "F", "K">>

\* The ways the export joints are parented: a chain, the chain reversed,
\* all in the world, all under the first.
JointParents ==
    { <<World, l_a_jnt, l_a_b_jnt, r_c>>,
      <<l_a_b_jnt, r_c, r_jnt_d, World>>,
      <<World, World, World, World>>,
      <<World, l_a_jnt, l_a_jnt, l_a_jnt>> }

\* The scene s with the export joints parented as par, and the control.
RECURSIVE WithJoints(_, _, _)
WithJoints(s, par, i) ==
    IF i > Len(Joints) THEN AddNode(s, ctrl, "transform", World)
    ELSE WithJoints(AddNode(s, Joints[i], "joint", par[i]), par, i + 1)

JointScenes ==
    {WithJoints(EmptyScene, par, 1) : par \in JointParents}
    \cup {WithJoints(AddNode(EmptyScene, l_a_FK, "joint", World), par, 1) :
             par \in {<<World, l_a_jnt, l_a_b_jnt, r_c>>}}

\* The lists of at most n distinct elements of S.
RECURSIVE DistinctSeqs(_, _)
DistinctSeqs(S, n) ==
    IF n = 0 THEN {<<>>}
    ELSE LET shorter == DistinctSeqs(S, n - 1)
         IN  shorter \cup
             UNION {{Append(l, x) : x \in S \ Range(l)} :
                        l \in {m \in shorter : Len(m) = n - 1}}

\* The list l in reverse order.
Reverse(l) == [i \in 1..Len(l) |-> l[Len(l) + 1 - i]]

\* What the user can have selected when a script runs: up to three export
\* joints in any order, or all four along the chain or against it; nothing
\* or one joint, also with the control selected last.
Selections ==
    LET js == DistinctSeqs(Range(Joints), Len(Joints) - 1)
    IN  js \cup {Joints, Reverse(Joints)}
           \cup {Append(l, ctrl) : l \in {m \in js : Len(m) <= 1}}

\* One arm as the scripts leave it: the export chain, then build_fk and
\* build_ik run on its first three joints.
ArmJoints == <<l_a_jnt, l_a_b_jnt, r_c>>

ArmScene ==
    LET base == WithJoints(EmptyScene, <<World, l_a_jnt, l_a_b_jnt, r_c>>, 1)
    IN  build_ik(build_fk(base, ArmJoints).s, ArmJoints).s

ArmFK == build_fk(WithJoints(EmptyScene, <<World, l_a_jnt, l_a_b_jnt, r_c>>, 1),
                  ArmJoints).r.v

ArmIK == build_ik(WithJoints(EmptyScene, <<World, l_a_jnt, l_a_b_jnt, r_c>>, 1),
                  ArmJoints).r[1].v

\* The empty list, the first element of a list l and the whole of l.
Prefixes(l) == {SubSeq(l, 1, k) : k \in {0, 1, Len(l)}}

\* A name of no node.
ghost == <<"g", "h", "o", "s", "t">>

\* Joint lists handed to create_fkik_blend_joints: no, one or all export
\* joints in chain order, or all in sorted order; no, one or all FK joints;
\* no, one or all IK joints.
ExportLists == Prefixes(ArmJoints) \cup {sort(ArmJoints)}
FKLists == Prefixes(ArmFK)
IKLists == Prefixes(ArmIK)

\* Selections made for build_fkik_blend: some export, FK and IK joints, in
\* that order or the reverse, then the control.
BlendSelections ==
    LET js == {e \o f \o i : e \in Prefixes(ArmJoints), f \in FKLists,
                             i \in IKLists}
    IN  {Append(l, ctrl) : l \in js} \cup {Append(Reverse(l), ctrl) : l \in js}

\* A NURBS curve used as the control template: a transform and its shape.
tmpl == <<"t", "m", "p", "l">>
tmplShape == tmpl \o S_Shape

WithTemplate(s) ==
    AddNode(AddNode(s, tmpl, "transform", World), tmplShape, "nurbsCurve", tmpl)

\* The scenes create_fk_controls is run on: the arm and the template,
\* without and with the FK/IK switch on the control.
ControlScenes ==
    {WithTemplate(ArmScene),
     WithTemplate(add_fkik_switch_attribute(ArmScene, ctrl).s)}

\* Joint lists handed to create_fk_controls: up to three of the FK joints
\* and the first export joint, in any order.
ControlJointLists == DistinctSeqs(Range(ArmFK) \cup {l_a_jnt}, Len(ArmFK))

\* A NURBS curve to become the pole-vector control.
pv == <<"p", "v">>

\* Where the first IK joint is, and where an IK joint is from its parent:
\* along X, in the XY plane, along Z, and out of the XY plane.
StartPositions == {<<0, 0, 0>>, <<5, 10, 15>>}
JointOffsets ==
    {<<25, 0, 0>>, <<15, 20, 0>>, <<0, 25, 0>>, <<0, 0, 25>>, <<15, 20, 60>>,
     <<25, 0, 60>>}

\* The arm s with its IK joints placed, the curve for the pole vector, the
\* curve for the IK control, and the switch control moved off the origin.
PoleScene(arm, start, mid, end) ==
    Bind(WithTemplate(AddNode(AddNode(arm, pv, "transform", World),
                              pv \o S_Shape, "nurbsCurve", pv)), LAMBDA s :
        [s EXCEPT !.xf = [p \in DOMAIN s.xf \cup
                               {Plug(ArmIK[i], translate) : i \in 1..3} \cup
                               {Plug(ctrl, translate)} |->
                            IF p = Plug(ArmIK[1], translate) THEN start
                            ELSE IF p = Plug(ArmIK[2], translate) THEN mid
                            ELSE IF p = Plug(ArmIK[3], translate) THEN end
                            ELSE IF p = Plug(ctrl, translate)
                                 THEN <<10, 20, 30>>
                                 ELSE s.xf[p]]])

\* Selections made for setup_ik_controls: the nine nodes in the required
\* order, eight of them, the export joints replaced by a node that is no
\* joint, the control (no curve) as the pole-vector curve.
PoleArgs == ArmIK \o ArmJoints \o <<tmpl, pv, ctrl>>
PoleSelections ==
    {PoleArgs,
     SubSeq(PoleArgs, 1, 8),
     ArmIK \o <<ctrl, l_a_jnt, l_a_b_jnt, tmpl, pv, ctrl>>,
     ArmIK \o ArmJoints \o <<tmpl, ctrl, ctrl>>}

\* Export joints named B_jnt, some with a base name that another one's
\* base name begins with.
l_b_jnt == <<"l", "_", "b", "_", "j", "n", "t">>
r_a_jnt == <<"r", "_", "a", "_", "j", "n", "t">>
l_ab_jnt == <<"l", "_", "a", "b", "_", "j", "n", "t">>
ExportNames == {l_a_jnt, l_a_b_jnt, l_b_jnt, r_a_jnt, l_ab_jnt}

\* The scene with the joints of list l, each in the world.
RECURSIVE WorldJoints(_, _)
WorldJoints(s, l) ==
    IF l = <<>> THEN s
    ELSE WorldJoints(AddNode(s, Head(l), "joint", World), Tail(l))

\* Selections made for run_create_fk_controls and run_create_ik_control:
\* nothing, the template alone, the template and joints, the control (no
\* curve) and a joint, the template and a node that is no joint.
ControlSelections ==
    {<<>>, <<tmpl>>, <<tmpl, ArmIK[3]>>, <<tmpl, ArmFK[1]>>,
     <<tmpl>> \o ArmFK, <<tmpl, ArmFK[1], ArmFK[3]>>, <<ctrl, ArmFK[1]>>,
     <<tmpl, ctrl>>, <<tmpl, ArmFK[1], ctrl>>}

\* Names handed to match_joints.
l_FK_x == <<"l", "_", "F", "K", "_", "x">>
MatchNames ==
    {l_a_jnt, l_a_b_jnt, r_c, l_FK_x} \cup Range(ArmFK) \cup Range(ArmIK)

\* The lists of at most n elements of S.
Seqs(S, n) == UNION {[1..k -> S] : k \in 0..n}

(***************************************************************************)
(* Actions: one per script entry point.                                    *)
(***************************************************************************)
NoOp == [fn |-> "none", arg |-> <<>>]

\* base_rig.run() / RiggingUI "Build Base".
BuildGroups ==
    /\ calls < MaxBuilds
    /\ LET res == build_groups(scene)
       IN  /\ scene' = res.s
           /\ result' = Py(res.r)
    /\ op' = [fn |-> "build_groups", arg |-> <<>>]
    /\ exc' = "none"
    /\ calls' = calls + 1

\* joint_utils.run() / run.run_get_joint_info().
GetJointInfo ==
    /\ calls < MaxCalls
    /\ \E selection \in Selections :
        /\ result' = get_joint_info(scene, selection)
        /\ op' = [fn |-> "get_joint_info",
                  arg |-> <<ls_joints(scene, selection)>>]
    /\ scene' = scene
    /\ exc' = "none"
    /\ calls' = calls + 1

\* fk_build.run() / RiggingUI "Build FK".
BuildFK ==
    /\ calls < MaxCalls
    /\ \E selection \in Selections :
        LET res == build_fk(scene, selection)
        IN  /\ scene' = res.s
            /\ result' = res.r
            /\ op' = [fn |-> "build_fk",
                      arg |-> <<ls_joints(scene, selection)>>]
    /\ exc' = "none"
    /\ calls' = calls + 1

\* ik_build.run() / RiggingUI "Build IK".
BuildIK ==
    /\ calls < MaxCalls
    /\ \E selection \in Selections :
        LET res == build_ik(scene, selection)
        IN  /\ scene' = res.s
            /\ result' = res.r
            /\ op' = [fn |-> "build_ik",
                      arg |-> <<ls_joints(scene, selection)>>]
    /\ exc' = "none"
    /\ calls' = calls + 1

\* control_utils.run() on a selected control, and the call made by
\* create_fkik_blend_joints.
AddSwitch ==
    /\ calls < MaxSwitch
    /\ \E control \in {ctrl, ghost, l_a_jnt} :
        LET res == add_fkik_switch_attribute(scene, control)
        IN  /\ scene' = res.s
            /\ result' = Py(res.r)
            /\ op' = [fn |-> "add_fkik_switch_attribute", arg |-> <<control>>]
    /\ exc' = "none"
    /\ calls' = calls + 1

\* create_fkik_blend_joints called with lists of joints of the scene.
CreateBlend ==
    /\ calls < MaxCalls
    /\ \E e \in ExportLists, f \in FKLists, i \in IKLists,
          control \in {ctrl, ghost} :
        LET res == create_fkik_blend_joints(scene, e, f, i, control)
        IN  /\ scene' = res.s
            /\ result' = res.r
            /\ exc' = res.exc
            /\ op' = [fn |-> "create_fkik_blend_joints",
                      arg |-> <<e, f, i, control>>]
    /\ calls' = calls + 1

\* fkik_blend_build.run() / RiggingUI "Build FK/IK Blend".
BuildBlend ==
    /\ calls < MaxCalls
    /\ \E selected \in BlendSelections :
        LET res == build_fkik_blend(scene, selected)
        IN  /\ scene' = res.s
            /\ result' = res.r
            /\ exc' = res.exc
            /\ op' = [fn |-> "build_fkik_blend", arg |-> <<selected>>]
    /\ calls' = calls + 1

\* match_joints applied to the list drawn at the start.
MatchJoints ==
    /\ op.fn = "input"
    /\ result' = Py(match_joints(op.arg[1]))
    /\ op' = [fn |-> "match_joints", arg |-> op.arg]
    /\ exc' = "none"
    /\ calls' = calls + 1
    /\ scene' = scene

\* control_creation.create_fk_controls(control_template, joints), the
\* template a curve, a transform without a shape, or a name of no node.
CreateFkControls ==
    /\ calls < MaxCalls
    /\ \E control_template \in {tmpl, ctrl, ghost},
          joints \in ControlJointLists :
        LET res == create_fk_controls(scene, control_template, joints)
        IN  /\ scene' = res.s
            /\ result' = IF res.exc = "none" THEN Py(res.r) ELSE PyNone
            /\ exc' = res.exc
            /\ op' = [fn |-> "create_fk_controls",
                      arg |-> <<control_template, joints>>]
    /\ calls' = calls + 1

\* fk_build.run() on the export joints of the scene, selected in the order
\* drawn at the start.
DerivedBuildFK ==
    /\ op.fn = "export"
    /\ LET res == build_fk(scene, op.arg[1])
       IN  /\ scene' = res.s
           /\ result' = res.r
    /\ op' = [fn |-> "build_fk", arg |-> op.arg]
    /\ exc' = "none"
    /\ calls' = calls + 1

\* ik_build.run() on the same selection, after the FK build.
DerivedBuildIK ==
    /\ op.fn = "build_fk"
    /\ LET res == build_ik(scene, op.arg[1])
       IN  /\ scene' = res.s
           /\ result' = res.r
    /\ op' = [fn |-> "build_ik", arg |-> op.arg]
    /\ exc' = "none"
    /\ calls' = calls + 1

\* match_joints on every joint of the scene, as build_fkik_blend calls it
\* with all export, FK and IK joints selected; after the FK build or after
\* both builds.
MatchDerived ==
    /\ op.fn \in {"build_fk", "build_ik"}
    /\ LET joints == ls_joints(scene, ls_all(scene))
       IN  /\ result' = Py(match_joints(joints))
           /\ op' = [fn |-> "match_joints", arg |-> <<joints>>]
    /\ scene' = scene
    /\ exc' = "none"
    /\ calls' = calls + 1

\* control_creation.create_ik_control(control_template, joint)
CreateIkControl ==
    /\ calls < MaxCalls
    /\ \E control_template \in {tmpl, ghost},
          joint \in {ArmIK[3], l_a_jnt, <<>>} :
        LET res == create_ik_control(scene, control_template, joint)
        IN  /\ scene' = res.s
            /\ result' = res.r
            /\ op' = [fn |-> "create_ik_control",
                      arg |-> <<control_template, joint>>]
    /\ exc' = "none"
    /\ calls' = calls + 1

\* control_creation.run_create_ik_control()
RunCreateIkControl ==
    /\ calls < MaxCalls
    /\ \E selected \in ControlSelections :
        LET res == run_create_ik_control(scene, selected)
        IN  /\ scene' = res.s
            /\ result' = res.r
            /\ exc' = res.exc
            /\ op' = [fn |-> "run_create_ik_control", arg |-> <<selected>>]
    /\ calls' = calls + 1

\* control_creation.run_create_fk_controls() / run.run_create_fk_controls()
RunCreateFkControls ==
    /\ calls < MaxCalls
    /\ \E selected \in ControlSelections :
        LET res == run_create_fk_controls(scene, selected)
        IN  /\ scene' = res.s
            /\ exc' = res.exc
            /\ op' = [fn |-> "run_create_fk_controls", arg |-> <<selected>>]
    /\ result' = PyNone
    /\ calls' = calls + 1

\* ik_controls_setup.run() / run.run_setup_ik_controls() / RiggingUI
\* "Setup IK Controls".
SetupIkControls ==
    /\ calls < MaxCalls
    /\ \E selected \in PoleSelections :
        LET res == setup_ik_controls(scene, selected)
        IN  /\ scene' = res.s
            /\ result' = res.r
            /\ exc' = res.exc
            /\ op' = [fn |-> "setup_ik_controls", arg |-> <<selected>>]
    /\ calls' = calls + 1

InitBase ==
    /\ \E present \in GroupSets,
          base \in {EmptyScene, AddNode(EmptyScene, ctrl, "transform", World)} :
           scene = WithGroups(base, present, 1)
    /\ op = NoOp
    /\ result = PyNone
    /\ exc = "none"
    /\ calls = 0

NextBase == BuildGroups

SpecBase == InitBase /\ [][NextBase]_vars

InitJoints ==
    /\ scene \in JointScenes
    /\ op = NoOp
    /\ result = PyNone
    /\ exc = "none"
    /\ calls = 0

NextJoints == GetJointInfo \/ BuildFK \/ BuildIK

SpecJoints == InitJoints /\ [][NextJoints]_vars

InitBlend ==
    /\ scene \in {ArmScene, add_fkik_switch_attribute(ArmScene, ctrl).s}
    /\ op = NoOp
    /\ result = PyNone
    /\ exc = "none"
    /\ calls = 0

NextBlend == AddSwitch \/ CreateBlend \/ BuildBlend

SpecBlend == InitBlend /\ [][NextBlend]_vars

InitControls ==
    /\ scene \in ControlScenes
    /\ op = NoOp
    /\ result = PyNone
    /\ exc = "none"
    /\ calls = 0

NextControls ==
    \/ CreateFkControls
    \/ CreateIkControl
    \/ RunCreateIkControl
    \/ RunCreateFkControls

SpecControls == InitControls /\ [][NextControls]_vars

InitDerived ==
    /\ \E joints \in DistinctSeqs(ExportNames, MaxLen) :
        /\ scene = WorldJoints(EmptyScene, joints)
        /\ op = [fn |-> "export", arg |-> <<joints>>]
    /\ result = PyNone
    /\ exc = "none"
    /\ calls = 0

NextDerived == DerivedBuildFK \/ DerivedBuildIK \/ MatchDerived

SpecDerived == InitDerived /\ [][NextDerived]_vars

InitPole ==
    /\ \E arm \in {ArmScene, add_fkik_switch_attribute(ArmScene, ctrl).s},
          start \in StartPositions, mid \in JointOffsets, end \in JointOffsets :
           scene = PoleScene(arm, start, mid, end)
    /\ op = NoOp
    /\ result = PyNone
    /\ exc = "none"
    /\ calls = 0

NextPole == SetupIkControls

SpecPole == InitPole /\ [][NextPole]_vars

InitMatch ==
    /\ scene = EmptyScene
    /\ \E joints \in Seqs(MatchNames, MaxLen) :
           op = [fn |-> "input", arg |-> <<joints>>]
    /\ result = PyNone
    /\ exc = "none"
    /\ calls = 0

NextMatch == MatchJoints

SpecMatch == InitMatch /\ [][NextMatch]_vars

(***************************************************************************)
(* Properties of base_rig.py, checked under SpecBase.                      *)
(***************************************************************************)
\* C1: after build_groups returns, from a scene where each of the seven
\* groups is absent or under its expected parent, ROOT has exactly the
\* children CONTROLS and DO_NOT_TOUCH, DO_NOT_TOUCH has exactly the children
\* EXPORT_SKELETON, GEO, RIG_DEFORMERS and RIG_SYSTEMS, and the call returned
\* 'ROOT'.
C1_HierarchyBuilt ==
    op.fn = "build_groups" =>
        /\ ~result.none
        /\ result.v = ROOT
        /\ Exists(scene, ROOT)
        /\ ParentOf(scene, ROOT) = World
        /\ ChildrenOf(scene, ROOT) = {CONTROLS, DO_NOT_TOUCH}
        /\ ChildrenOf(scene, DO_NOT_TOUCH) =
               {EXPORT_SKELETON, GEO, RIG_DEFORMERS, RIG_SYSTEMS}
        /\ \A g \in GroupNames : scene.node[g].type = "transform"

\* A first call that found ROOT, DO_NOT_TOUCH and GEO and created the rest.
C1_Witness ==
    /\ op.fn = "build_groups"
    /\ calls = 1
    /\ scene.order = <<ROOT, DO_NOT_TOUCH, GEO, CONTROLS, EXPORT_SKELETON,
                       RIG_DEFORMERS, RIG_SYSTEMS>>

\* C2: build_groups keeps every node it finds where it is, creates exactly
\* the groups that are missing, and a call after an earlier call leaves the
\* scene as it was and returns the same name.
C2_Idempotent ==
    [][op'.fn = "build_groups" =>
          /\ \A n \in Nodes(scene) :
                 n \in Nodes(scene') /\ scene'.node[n] = scene.node[n]
          /\ Nodes(scene') \ Nodes(scene) = GroupNames \ Nodes(scene)
          /\ op.fn = "build_groups" => scene' = scene /\ result' = result]_vars

\* A second call has returned.
C2_Witness == op.fn = "build_groups" /\ calls = 2

(***************************************************************************)
(* Properties of joint_utils.py, fk_build.py and ik_build.py, checked      *)
(* under SpecJoints.                                                       *)
(***************************************************************************)
\* C3: with at least one joint selected, get_joint_info returns a dictionary
\* keyed by exactly the selected joints, each value holding the parent joint
\* (or None) and the list of child joints (or an empty list).
C3_ReturnsJointInfo ==
    (op.fn = "get_joint_info" /\ op.arg[1] # <<>>) =>
        /\ ~result.none
        /\ DOMAIN result.v = Range(op.arg[1])
        /\ \A j \in Range(op.arg[1]) :
               /\ result.v[j].parent = listRelatives_parent(scene, j)
               /\ result.v[j].children =
                      SelectSeq(scene.order,
                          LAMBDA x : scene.node[x].parent = j
                                     /\ scene.node[x].type = "joint")

\* A call of duplicate_and_rename_joints has returned a list (through
\* build_fk, or through build_ik on three joints).
Duplicated ==
    \/ op.fn = "build_fk" /\ ~result.none
    \/ op.fn = "build_ik" /\ ~result[1].none

\* The arguments and the result of that call.
DupJoints == op.arg[1]
DupSuffix == IF op.fn = "build_fk" THEN S_FK ELSE S_IK
DupResult == IF op.fn = "build_fk" THEN result.v ELSE result[1].v

\* The name asked for joint: the joint's name without '_jnt', then suffix.
Requested(joint, suffix) == replace(joint, S_jnt, <<>>) \o suffix

\* name is asked, or asked with the number the host appends on a clash.
GivenFor(name, asked) ==
    \/ name = asked
    \/ \E d \in 1..MaxSuffix : name = Append(asked, Digit(d))

\* C4: duplicate_and_rename_joints returns one new joint per input joint, in
\* input order; the i-th is a joint that was not in the scene before, has
\* the user attributes of joints[i], has no child joint but the next joint
\* of the list, and was asked to be named joints[i] without '_jnt' plus the
\* suffix.
C4_OnePerJoint ==
    [][Duplicated' =>
          /\ Len(DupResult') = Len(DupJoints')
          /\ \A i \in 1..Len(DupJoints') :
                /\ DupResult'[i] \notin Nodes(scene)
                /\ DupResult'[i] \in Nodes(scene')
                /\ scene'.node[DupResult'[i]].type = "joint"
                /\ scene'.attrs[DupResult'[i]] = scene.attrs[DupJoints'[i]]
                /\ GivenFor(DupResult'[i],
                            Requested(DupJoints'[i], DupSuffix'))
                /\ {c \in ChildrenOf(scene', DupResult'[i]) :
                       scene'.node[c].type = "joint"} \subseteq
                       {DupResult'[j] : j \in {i + 1} \cap 1..Len(DupJoints')}
          /\ \A i, j \in 1..Len(DupResult') :
                i # j => DupResult'[i] # DupResult'[j]]_vars

\* build_fk returned the copies of r_jnt_d and l_a_jnt, in that order, in
\* the scene where l_a_FK was taken.
C4_Witness ==
    /\ op.fn = "build_fk"
    /\ op.arg[1] = <<r_jnt_d, l_a_jnt>>
    /\ ~result.none
    /\ result.v = << <<"r", "_", "d", "_", "F", "K">>, Append(l_a_FK, "1") >>

\* C5: when duplicate_and_rename_joints returns more than one joint, each
\* returned joint after the first is parented to the one before it in the
\* list, however the originals were parented.
C5_LinearChain ==
    (Duplicated /\ Len(DupResult) > 1) =>
        \A i \in 2..Len(DupResult) :
            ParentOf(scene, DupResult[i]) = DupResult[i - 1]

\* Four joints whose originals form the chain in the opposite direction.
C5_Witness ==
    /\ op.fn = "build_fk"
    /\ op.arg[1] = Joints
    /\ ParentOf(scene, l_a_jnt) = l_a_b_jnt
    /\ ~result.none
    /\ Len(result.v) = 4
    /\ ParentOf(scene, result.v[4]) = result.v[3]

\* C6: build_ik returns (None, None) and leaves the scene alone unless
\* exactly three joints are selected; with three it returns three new joints
\* asked to be named with '_IK' and one new ikRPsolver handle from the first
\* of them to the third.
C6_ExactlyThree ==
    [][op'.fn = "build_ik" =>
          IF Len(op'.arg[1]) # 3
          THEN /\ result'[1].none /\ result'[2].none
               /\ scene' = scene
          ELSE /\ ~result'[1].none /\ ~result'[2].none
               /\ Len(result'[1].v) = 3
               /\ \A i \in 1..3 :
                     /\ result'[1].v[i] \notin Nodes(scene)
                     /\ scene'.node[result'[1].v[i]].type = "joint"
                     /\ GivenFor(result'[1].v[i],
                                 Requested(op'.arg[1][i], S_IK))
               /\ {n \in Nodes(scene') \ Nodes(scene) :
                      scene'.node[n].type = "joint"} = Range(result'[1].v)
               /\ {n \in Nodes(scene') \ Nodes(scene) :
                      scene'.node[n].type = "ikHandle"} = {result'[2].v}
               /\ DOMAIN scene'.ik = DOMAIN scene.ik \cup {result'[2].v}
               /\ scene'.ik[result'[2].v].solver = "ikRPsolver"
               /\ scene'.ik[result'[2].v].startJoint = result'[1].v[1]
               /\ scene'.ik[result'[2].v].endJoint = result'[1].v[3]]_vars

\* build_ik built a handle on the copies of three selected joints.
C6_Witness ==
    /\ op.fn = "build_ik"
    /\ op.arg[1] = <<l_a_jnt, l_a_b_jnt, r_c>>
    /\ ~result[2].none
    /\ scene.ik[result[2].v].startJoint = <<"l", "_", "a", "_", "I", "K">>
    /\ scene.ik[result[2].v].endJoint = <<"r", "_", "c", "_", "I", "K">>

\* build_ik was refused four selected joints.
C6_WitnessRefused ==
    op.fn = "build_ik" /\ Len(op.arg[1]) = 4 /\ result[1].none

(***************************************************************************)
(* Properties of control_utils.py and fkik_blend_build.py, checked under   *)
(* SpecBlend and SpecMatch.                                                *)
(***************************************************************************)
\* The places of the FKIK_Switch attributes node n has.
SwitchAttrs(s, n) ==
    {i \in 1..Len(s.attrs[n]) : s.attrs[n][i].longName = FKIK_Switch}

\* C7: add_fkik_switch_attribute returns True exactly when the control
\* exists and had no FKIK_Switch; when it returns False the scene is as it
\* was; after the call an existing control has exactly one FKIK_Switch, with
\* minimum 0, maximum 1 and default 0; and whatever was called, no node has
\* more than one.
C7_SwitchAddedOnce ==
    [][/\ op'.fn = "add_fkik_switch_attribute" =>
            LET control == op'.arg[1]
            IN  /\ ~result'.none
                /\ result'.v = (/\ Exists(scene, control)
                             /\ SwitchAttrs(scene, control) = {})
                /\ ~result'.v => scene' = scene
                /\ Exists(scene, control) =>
                      /\ Cardinality(SwitchAttrs(scene', control)) = 1
                      /\ \A i \in SwitchAttrs(scene', control) :
                            /\ scene'.attrs[control][i].min = 0
                            /\ scene'.attrs[control][i].max = 1
                            /\ scene'.attrs[control][i].defaultValue = 0
       /\ \A n \in Nodes(scene') : Cardinality(SwitchAttrs(scene', n)) <= 1]_vars

\* A second call on the control: the first added the attribute, this one
\* returned False.
C7_Witness ==
    /\ op.fn = "add_fkik_switch_attribute"
    /\ op.arg[1] = ctrl
    /\ calls = 2
    /\ result.v = FALSE
    /\ Cardinality(SwitchAttrs(scene, ctrl)) = 1
    /\ Cardinality(SwitchAttrs(ArmScene, ctrl)) = 0

\* name ends with the three characters of suffix.
HasSuffix(name, suffix) ==
    /\ Len(name) >= Len(suffix)
    /\ \A k \in 1..Len(suffix) : name[Len(name) - Len(suffix) + k] = suffix[k]

\* a comes before b or is b, in ascending string order: at the first place
\* where they differ, a has ended or has the lower character.
Ascending(a, b) ==
    \/ a = b
    \/ \E k \in 1..(Len(b)) :
          /\ \A j \in 1..(k - 1) : j <= Len(a) /\ a[j] = b[j]
          /\ \/ k = Len(a) + 1
             \/ k <= Len(a) /\ Ord(a[k]) < Ord(b[k])

\* How many times x is in the list l.
Count(x, l) == Cardinality({i \in 1..Len(l) : l[i] = x})

\* C8: match_joints puts every input name in exactly one list (names ending
\* '_FK' in the FK list, names ending '_IK' in the IK list, the others in the
\* export list), as many times as it was given, adds nothing, and returns
\* each list in ascending string order.
C8_PartitionSorted ==
    op.fn = "match_joints" =>
        LET joints == op.arg[1]
            export_joints == result.v[1]
            fk_joints == result.v[2]
            ik_joints == result.v[3]
        IN  /\ \A x \in Range(fk_joints) : HasSuffix(x, S_FK)
            /\ \A x \in Range(ik_joints) : HasSuffix(x, S_IK)
            /\ \A x \in Range(export_joints) :
                   ~HasSuffix(x, S_FK) /\ ~HasSuffix(x, S_IK)
            /\ \A x \in Range(joints) \cup Range(export_joints)
                        \cup Range(fk_joints) \cup Range(ik_joints) :
                   Count(x, joints) = Count(x, export_joints)
                       + Count(x, fk_joints) + Count(x, ik_joints)
            /\ \A l \in {export_joints, fk_joints, ik_joints} :
                   \A i, j \in 1..Len(l) : i < j => Ascending(l[i], l[j])

\* A mixed list given out of order: two export joints and one IK joint.
C8_Witness ==
    /\ op.fn = "match_joints"
    /\ op.arg[1] = <<l_a_jnt, <<"r", "_", "c", "_", "I", "K">>, l_a_b_jnt>>
    /\ result.v = << <<l_a_b_jnt, l_a_jnt>>, <<>>,
                  << <<"r", "_", "c", "_", "I", "K">> >> >>

\* C9: when the numbers of export, FK and IK joints are not all equal,
\* create_fkik_blend_joints returns None and the scene is as it was.
C9_UnequalRefused ==
    [][(/\ op'.fn = "create_fkik_blend_joints"
        /\ ~(/\ Len(op'.arg[1]) = Len(op'.arg[2])
             /\ Len(op'.arg[2]) = Len(op'.arg[3]))) =>
          /\ result'.none
          /\ exc' = "none"
          /\ scene' = scene]_vars

\* Three export joints, three FK joints and one IK joint were refused, and
\* the control has no FKIK_Switch.
C9_Witness ==
    /\ op.fn = "create_fkik_blend_joints"
    /\ Len(op.arg[1]) = 3 /\ Len(op.arg[2]) = 3 /\ Len(op.arg[3]) = 1
    /\ op.arg[4] = ctrl
    /\ result.none
    /\ SwitchAttrs(scene, ctrl) = {}

\* The weight of target t of constraint c when control.FKIK_Switch is v.
WeightAt(s, control, v, c, t) ==
    LET k == CHOOSE i \in 1..Len(s.cons[c].targets) : s.cons[c].targets[i] = t
    IN  getAttr(setAttr(s, Plug(control, FKIK_Switch), v),
                Plug(c, s.cons[c].aliases[k]))

\* C10: for lists of equal length and a control of the scene,
\* create_fkik_blend_joints returns one parent constraint per export joint,
\* in order, the i-th on the i-th export joint with the i-th FK and the i-th
\* IK joint as targets; with FKIK_Switch at 0 the FK weight is 1 and the IK
\* weight 0, with FKIK_Switch at 1 the FK weight is 0 and the IK weight 1.
C10_BlendWired ==
    (/\ op.fn = "create_fkik_blend_joints"
     /\ Len(op.arg[1]) = Len(op.arg[2])
     /\ Len(op.arg[2]) = Len(op.arg[3])
     /\ Exists(scene, op.arg[4])) =>
        LET export_joints == op.arg[1]
            fk_joints == op.arg[2]
            ik_joints == op.arg[3]
            control == op.arg[4]
        IN  /\ exc = "none"
            /\ ~result.none
            /\ Len(result.v) = Len(export_joints)
            /\ \A i \in 1..Len(export_joints) :
                  /\ result.v[i] \in DOMAIN scene.cons
                  /\ scene.node[result.v[i]].type = "parentConstraint"
                  /\ scene.cons[result.v[i]].driven = export_joints[i]
                  /\ scene.cons[result.v[i]].targets =
                         <<fk_joints[i], ik_joints[i]>>
                  /\ WeightAt(scene, control, 0, result.v[i], fk_joints[i]) = 1
                  /\ WeightAt(scene, control, 0, result.v[i], ik_joints[i]) = 0
                  /\ WeightAt(scene, control, 1, result.v[i], fk_joints[i]) = 0
                  /\ WeightAt(scene, control, 1, result.v[i], ik_joints[i]) = 1

\* The same for lists that are not empty and export joints that no call
\* has constrained yet, where the call returns.
C10_WiredWhenNotEmpty ==
    [][(/\ op'.fn = "create_fkik_blend_joints"
        /\ op'.arg[1] # <<>>
        /\ \A j \in Range(op'.arg[1]) : ConstraintsOn(scene, j) = {}) =>
          C10_BlendWired']_vars

\* Three joints were blended and the call returned three constraints.
C10_Witness ==
    /\ op.fn = "create_fkik_blend_joints"
    /\ op.arg = <<ArmJoints, ArmFK, ArmIK, ctrl>>
    /\ ~result.none
    /\ Len(result.v) = 3

(***************************************************************************)
(* create_fk_controls                                                      *)
(***************************************************************************)
\* Control number i of the list a call returned is a new node under an
\* offset group of its own, which is new and is in the world for the first
\* control and under the previous control for a later one, and joint number
\* i is parent-constrained to the control.
ControlBuilt(before, after, controls, joints, i) ==
    LET c == controls[i]
        g == ParentOf(after, c)
    IN  /\ ~Exists(before, c)
        /\ Exists(after, c)
        /\ \A k \in 1..Len(controls) : controls[k] = c => k = i
        /\ g # World
        /\ ~Exists(before, g)
        /\ after.node[g].type = "transform"
        /\ {x \in ChildrenOf(after, g) : x \in Range(controls)} = {c}
        /\ ParentOf(after, g) = IF i = 1 THEN World ELSE controls[i - 1]
        /\ \E k \in ConstraintsOn(after, joints[i]) :
               c \in Range(after.cons[k].targets)

\* C11: for an existing template and a non-empty joint list,
\* create_fk_controls returns one control per joint, in order; each control
\* is under its own offset group, the first offset group is in the world
\* and every later one is under the previous control (not under that
\* control's offset group), and each joint is parent-constrained to its
\* control.  When the template does not exist or the list is empty it
\* returns [] and leaves the scene as it was.
C11_ControlsBuilt ==
    [][op'.fn = "create_fk_controls" =>
          IF objExists(scene, op'.arg[1]) /\ op'.arg[2] # <<>>
          THEN /\ exc' = "none"
               /\ ~result'.none
               /\ Len(result'.v) = Len(op'.arg[2])
               /\ \A i \in 1..Len(op'.arg[2]) :
                      ControlBuilt(scene, scene', result'.v, op'.arg[2], i)
          ELSE /\ exc' = "none"
               /\ result' = Py(<<>>)
               /\ scene' = scene]_vars

\* For a template that has a shape and a non-empty joint list the controls
\* are built as C11 says.
C11_BuiltFromCurve ==
    [][/\ op'.fn = "create_fk_controls"
       /\ objExists(scene, op'.arg[1])
       /\ ~listRelatives_shapes(scene, op'.arg[1]).none
       /\ op'.arg[2] # <<>>
       => /\ exc' = "none"
          /\ ~result'.none
          /\ Len(result'.v) = Len(op'.arg[2])
          /\ \A i \in 1..Len(op'.arg[2]) :
                 ControlBuilt(scene, scene', result'.v, op'.arg[2], i)]_vars

\* A call on three joints has returned three controls, the second one's
\* offset group under the first control.
C11_Witness ==
    /\ op.fn = "create_fk_controls"
    /\ exc = "none"
    /\ Len(op.arg[2]) = 3
    /\ Len(result.v) = 3
    /\ ParentOf(scene, ParentOf(scene, result.v[2])) = result.v[1]

\* A call with a template that does not exist has returned [].
C11_WitnessRefused ==
    /\ op.fn = "create_fk_controls"
    /\ op.arg[1] = ghost
    /\ op.arg[2] # <<>>
    /\ result = Py(<<>>)

(***************************************************************************)
(* match_joints on derived names                                           *)
(***************************************************************************)
\* The list handed to match_joints holds, for each of its export joints
\* B_jnt, the joints B_FK and B_IK, and no other FK or IK joint.
DerivedNames(joints, export_joints) ==
    /\ export_joints # <<>>
    /\ \A j \in Range(export_joints) : endswith(j, S_jnt)
    /\ {j \in Range(joints) : endswith(j, S_FK)}
           = {replace(j, S_jnt, S_FK) : j \in Range(export_joints)}
    /\ {j \in Range(joints) : endswith(j, S_IK)}
           = {replace(j, S_jnt, S_IK) : j \in Range(export_joints)}

\* C12: for export joints named B_jnt and the FK and IK joints B_FK and B_IK
\* that duplicate_and_rename_joints derives from them, the three lists
\* match_joints returns have the same length and, at every index, the
\* export, FK and IK joint share the base name B.
C12_SameOrder ==
    op.fn = "match_joints" /\ DerivedNames(op.arg[1], result.v[1]) =>
        LET export_joints == result.v[1]
            fk_joints == result.v[2]
            ik_joints == result.v[3]
        IN  /\ Len(fk_joints) = Len(export_joints)
            /\ Len(ik_joints) = Len(export_joints)
            /\ \A i \in 1..Len(export_joints) :
                   /\ fk_joints[i] = replace(export_joints[i], S_jnt, S_FK)
                   /\ ik_joints[i] = replace(export_joints[i], S_jnt, S_IK)

(***************************************************************************)
(* setup_pole_vector                                                       *)
(***************************************************************************)
\* The square of the three-dimensional Euclidean distance from p to q.
SquaredDistance(p, q) ==
    (q[1] - p[1]) * (q[1] - p[1]) + (q[2] - p[2]) * (q[2] - p[2])
    + (q[3] - p[3]) * (q[3] - p[3])

\* C13: when setup_ik_controls has run setup_pole_vector, the distances
\* taken between the start, middle and end IK joint are the
\* three-dimensional Euclidean ones (get_distance(p, q) squared is
\* dx^2 + dy^2 + dz^2), and the offset group of the pole-vector control is
\* at the middle joint's world X and Y, with Z the middle joint's Z minus
\* 0.8 times the sum of the two distances.
C13_PoleVectorPlaced ==
    [][op'.fn = "setup_ik_controls" /\ exc' = "none" /\ ~result'[3].none =>
          LET start_pos == xform_query(scene, op'.arg[1][1])
              mid_pos == xform_query(scene, op'.arg[1][2])
              end_pos == xform_query(scene, op'.arg[1][3])
              placed == xform_query(scene', ParentOf(scene', result'[3].v))
          IN  /\ get_distance(start_pos, mid_pos) * get_distance(start_pos, mid_pos)
                     = SquaredDistance(start_pos, mid_pos)
              /\ get_distance(mid_pos, end_pos) * get_distance(mid_pos, end_pos)
                     = SquaredDistance(mid_pos, end_pos)
              /\ placed[1] = mid_pos[1]
              /\ placed[2] = mid_pos[2]
              /\ 5 * (mid_pos[3] - placed[3])
                     = 4 * (Sqrt(SquaredDistance(start_pos, mid_pos))
                            + Sqrt(SquaredDistance(mid_pos, end_pos)))]_vars

\* With the three joints at one height the distances are the Euclidean
\* ones and the offset group is placed as C13 says.
C13_PlacedInPlane ==
    [][/\ op'.fn = "setup_ik_controls"
       /\ exc' = "none"
       /\ ~result'[3].none
       /\ xform_query(scene, op'.arg[1][1])[3]
              = xform_query(scene, op'.arg[1][2])[3]
       /\ xform_query(scene, op'.arg[1][2])[3]
              = xform_query(scene, op'.arg[1][3])[3]
       => LET start_pos == xform_query(scene, op'.arg[1][1])
              mid_pos == xform_query(scene, op'.arg[1][2])
              end_pos == xform_query(scene, op'.arg[1][3])
              placed == xform_query(scene', ParentOf(scene', result'[3].v))
          IN  /\ placed[1] = mid_pos[1]
              /\ placed[2] = mid_pos[2]
              /\ 5 * (mid_pos[3] - placed[3])
                     = 4 * (Sqrt(SquaredDistance(start_pos, mid_pos))
                            + Sqrt(SquaredDistance(mid_pos, end_pos)))]_vars

====
